---- MODULE Spec2Model ----
(***************************************************************************)
(* Model of the soil-monitor repository:                                   *)
(*   - the i2c-soil-drv character driver (src/i2c-soil-drv/main.c, the     *)
(*     final version of the file, lines 316-679): simulation commands,     *)
(*     the hardware acquisition with re-reads, the normalisation;          *)
(*   - the soil-monitor control loop (src/unnamed/part_001), its signal    *)
(*     handler and the GPIO routines (src/soil-mon-app/gpio.c).            *)
(*                                                                         *)
(* Specifications:                                                         *)
(*   SpecDrv  - the driver's read/write file operations under arbitrary    *)
(*              user calls, hardware transactions step by step;            *)
(*   SpecNorm - the normalisation of one raw reading, over all readings;   *)
(*   Spec     - the control loop with signals, GPIO and the driver.        *)
(***************************************************************************)
EXTENDS Integers, Sequences, FiniteSets, TLC

VARIABLES
    \* ---- driver: struct i2c_soil_dev and the build
    use_simulation,   \* int use_simulation: 1 = simulation, 0 = i2c
    sim_data,         \* unsigned char sim_data
    char_signed,      \* whether plain char is signed in this build
    \* ---- driver: a read() in progress in hardware mode
    drv_pc,           \* "idle" | "send" | "recv"
    reading,          \* ssize_t reading of i2c_soil_drv_read_sensor
    reread_i,         \* loop counter i of i2c_soil_drv_read_sensor
    n_xfer,           \* transactions started by the current read()
    n_reread,         \* msleep()s before a re-read of the current read()
    first_failed,     \* the first transaction of the current read() failed
    any_failed,       \* some transaction of the current read() failed
    all_high,         \* every transaction of this read() succeeded above 4095
    \* ---- the last system call on the device, as its caller sees it
    sys_ret,          \* return value of the last finished read()/write()
    sys_byte,         \* byte delivered to the user buffer by read(), or -1
    last_op,          \* kind of the last driver step
    last_arg,         \* payload of the last write(), <<>> after a read step
    last_fault,       \* the user buffer of the last write() was not readable
    stored,           \* last byte written by a 1-byte write in simulation
    \* ---- normalisation of one reading (SpecNorm)
    norm_in, norm_out,
    \* ---- i2c-soil-drv-test.sh (SpecSim)
    test_pc,          \* position of the script
    HEX_IN,           \* byte written by write_and_verify
    HEX_OUT,          \* byte read back by write_and_verify
    \* ---- soil-monitor: options and build (Spec)
    sim_opt,          \* -s given: sim_cmd = SIM_ON_CMD, else SIM_OFF_CMD
    target,           \* unsigned char target
    ptr_size,         \* sizeof(sim_cmd), the size of a pointer
    \* ---- soil-monitor: main(), the signal handler, the process
    pc,               \* position of main()
    hpc,              \* position of signal_handler, "none" outside it
    gstep,            \* position inside the gpio function that is running
    exit_status,      \* argument of the exit() in progress or done, else -1
    current,          \* unsigned char current
    blocked,          \* signals blocked: those whose handler is running
    \* ---- the sysfs GPIO pin
    exported,         \* /sys/class/gpio/gpio17 exists
    direction,        \* "in" | "out"
    value,            \* 0 | 1
    \* ---- history of the run
    n_sig,            \* signals delivered so far
    disable_fault,    \* an open, write or close of gpio_disable failed
                      \* although the state of the pin allowed it
    enabled_ok,       \* gpio_enable() has returned GPIO_OK
    sig_at,           \* <<pc, gstep>> of main() when the first terminal
                      \* signal was delivered after that, else <<>>
    it_seq,           \* gpio_on / sleep / gpio_off of this iteration
    prev_iter,        \* <<current, it_seq, it was the first>> of the
                      \* previous iteration
    read_failed,      \* the last read() of main() failed
    \* ---- history of the calls of the gpio functions
    g_fn,             \* the gpio function called last, "none" before any
    g_ret,            \* <<its return value>>, <<>> while it runs
    g_pre,            \* the pin was exported when it was called
    g_writes,         \* the write()s it made: <<file, data, all bytes
                      \* transferred>>
    g_prev,           \* <<g_fn, g_ret>> of the call before it
    g_enabled,        \* gpio_enable() has returned GPIO_OK and
                      \* gpio_disable() has not returned GPIO_OK since
    \* ---- soil-monitor: telemetry
    mqtt_opt,         \* -m given: mqtt_broker_uri is not NULL
    m_conn,           \* mqtt_client_connect called by mqtt_client_init:
                      \* [pos, count, n, sleeps], pos its position, count
                      \* conn_attempt_count, n the MQTTClient_connect calls
                      \* and sleeps the sleep(5) calls it has made
    cb_conn,          \* the same for mqtt_client_connect called by
                      \* mqtt_connection_lost, on the thread of the library
    cb_ret,           \* how the last mqtt_connection_lost ended: "none" |
                      \* "ok" | "fail" | "fail_read", the last when main()
                      \* has made a read() since
    mq_up,            \* the client is connected to the broker
    pub_ret           \* result of the last mqtt_publish_msg since the
                      \* last read(): "none" | "ok" | "fail"

drvVars == <<use_simulation, sim_data, char_signed, drv_pc, reading, reread_i,
             n_xfer, n_reread, first_failed, any_failed, all_high,
             sys_ret, sys_byte, last_op, last_arg, last_fault, stored>>
normVars == <<norm_in, norm_out>>
testVars == <<test_pc, HEX_IN, HEX_OUT>>
cfgVars == <<sim_opt, target, ptr_size>>
pinVars == <<exported, direction, value>>
sigVars == <<blocked, n_sig, sig_at>>
loopVars == <<current, it_seq, prev_iter, read_failed>>
callVars == <<g_fn, g_ret, g_pre, g_writes, g_prev, g_enabled>>
mqttVars == <<mqtt_opt, m_conn, cb_conn, cb_ret, mq_up, pub_ret>>
appVars == <<cfgVars, pinVars, sigVars, loopVars, callVars, mqttVars, pc, hpc,
             gstep, exit_status, disable_fault, enabled_ok>>
vars == <<drvVars, normVars, testVars, appVars>>

(***************************************************************************)
(* Program constants.                                                      *)
(***************************************************************************)
I2C_HIGH_OUT_OF_RANGE == 4095
I2C_MAX_REREADS == 4
I2C_MIN_RAW_DRY_READING == 672
I2C_MAX_RAW_WET_READING == 927
I2C_MIN_DRY_READING == 0
I2C_MAX_WET_READING == 255
MAX_CMD_BUF_SIZE == 8
EIO == 5
EFAULT == 14
\* "sim-on" and "sim-off" as ASCII bytes, without the terminating NUL
SIM_ON_CMD == <<115, 105, 109, 45, 111, 110>>
SIM_OFF_CMD == <<115, 105, 109, 45, 111, 102, 102>>

Byte == 0..255

(***************************************************************************)
(* Bounds of the model.                                                    *)
(***************************************************************************)
\* readings this far outside [0, I2C_HIGH_OUT_OF_RANGE] are normalised too
NormPad == 2

(***************************************************************************)
(* C conversions.                                                          *)
(***************************************************************************)
\* the value of a plain char holding byte b
ToChar(b) == IF char_signed /\ b >= 128 THEN b - 256 ELSE b
\* conversion of an integer to plain char (moisture = retval)
IntToChar(v) == ToChar(v % 256)
\* mutant: the char is widened to int and its low 7 bits are copied
ByteOf_SevenBits(c) == c % 128

\* the byte in memory of a char of value c (what copy_to_user copies)
ByteOf(c) == c % 256

\* retval = ((i2c_buf[0] << 8) | i2c_buf[1]) on char i2c_buf[2]: both
\* operands are promoted to int; a negative low byte sets all high bits.
MergeBytes(hi, lo) ==
    IF ToChar(lo) < 0 THEN ToChar(lo) ELSE ToChar(hi) * 256 + lo

\* mutant: 4095 itself is out of bounds
I2C_READING_OUT_OF_BOUNDS_Inclusive(X) == (X < 0) \/ (X >= I2C_HIGH_OUT_OF_RANGE)

I2C_READING_OUT_OF_BOUNDS(X) == (X < 0) \/ (X > I2C_HIGH_OUT_OF_RANGE)

\* mutant: the upper clamp is forgotten
NormalizeReading_NoCeiling(r) ==
    IF I2C_READING_OUT_OF_BOUNDS(r) THEN 0 - EIO
    ELSE IF r < I2C_MIN_RAW_DRY_READING THEN I2C_MIN_DRY_READING
    ELSE r - I2C_MIN_RAW_DRY_READING

\* the return statement of i2c_soil_drv_read_sensor
NormalizeReading(r) ==
    IF I2C_READING_OUT_OF_BOUNDS(r) THEN 0 - EIO
    ELSE IF r < I2C_MIN_RAW_DRY_READING THEN I2C_MIN_DRY_READING
    ELSE IF r > I2C_MAX_RAW_WET_READING THEN I2C_MAX_WET_READING
    ELSE r - I2C_MIN_RAW_DRY_READING

\* mutant: only readings above the ceiling are read again
RereadNeeded_HighOnly(r, i) ==
    (r > I2C_HIGH_OUT_OF_RANGE) /\ (i < I2C_MAX_REREADS)

\* mutant: the loop runs once more
RereadNeeded_OffByOne(r, i) ==
    I2C_READING_OUT_OF_BOUNDS(r) /\ (i <= I2C_MAX_REREADS)

\* the loop condition of i2c_soil_drv_read_sensor
RereadNeeded(r, i) == I2C_READING_OUT_OF_BOUNDS(r) /\ (i < I2C_MAX_REREADS)

(***************************************************************************)
(* strncmp(s1, s2, n) == 0 on byte sequences; s2 is a string literal       *)
(* (NUL after its last byte), s1 the 8-byte command buffer.                *)
(***************************************************************************)
At(s, k) == IF k <= Len(s) THEN s[k] ELSE 0

RECURSIVE StrncmpFrom(_, _, _, _)
StrncmpFrom(s1, s2, n, k) ==
    IF k > n THEN TRUE
    ELSE IF At(s1, k) # At(s2, k) THEN FALSE
    ELSE IF At(s1, k) = 0 THEN TRUE
    ELSE StrncmpFrom(s1, s2, n, k + 1)

StrncmpEq(s1, s2, n) == StrncmpFrom(s1, s2, n, 1)

Min(a, b) == IF a < b THEN a ELSE b

\* char cmd_buf[MAX_CMD_BUF_SIZE] after copy_from_user of min(8, count)
\* bytes: the bytes not copied keep what the stack held (stack)
CmdBuf(payload, stack) ==
    [k \in 1..MAX_CMD_BUF_SIZE |->
        IF k <= Min(MAX_CMD_BUF_SIZE, Len(payload)) THEN payload[k] ELSE stack[k]]

\* mutant: a recognised "sim-on" toggles the flag instead of setting it
CmdEffect_Toggle(cmd_buf, old) ==
    IF StrncmpEq(cmd_buf, SIM_ON_CMD, Len(SIM_ON_CMD)) THEN 1 - old
    ELSE IF StrncmpEq(cmd_buf, SIM_OFF_CMD, Len(SIM_OFF_CMD)) THEN 0
    ELSE old

\* use_simulation after the multi-byte branch of i2c_soil_drv_write
CmdEffect(cmd_buf, old) ==
    IF StrncmpEq(cmd_buf, SIM_ON_CMD, Len(SIM_ON_CMD)) THEN 1
    ELSE IF StrncmpEq(cmd_buf, SIM_OFF_CMD, Len(SIM_OFF_CMD)) THEN 0
    ELSE old

(***************************************************************************)
(* Inputs of the driver model.                                             *)
(***************************************************************************)
\* errno values i2c_master_send / i2c_master_recv fail with
TransportErrs == {0 - 121, 0 - 6}
\* byte counts of a partial transfer of the 2-byte buffer
PartialCounts == {0, 1}
\* bytes the sensor answers with: both sides of every threshold
RecvHi == {0, 2, 3, 15, 16, 128}
RecvLo == {0, 159, 160, 255}

\* bytes user processes write as simulated values: the ends of the range,
\* both sides of the sign bit, and values around the default target
SimBytes == {0, 1, 100, 127, 128, 150, 255}

\* multi-byte (and empty) payloads written to the device
P_on == SIM_ON_CMD
P_off == SIM_OFF_CMD
P_onX == SIM_ON_CMD \o <<88>>
P_offX == SIM_OFF_CMD \o <<88>>
P_on_nul == SIM_ON_CMD \o <<0, 37>>
P_off_nul == SIM_OFF_CMD \o <<0>>
P_sim == <<115, 105, 109, 45>>
P_si == <<115, 105>>
P_other == <<104, 101, 108, 108, 111>>
P_on_long == SIM_ON_CMD \o <<49, 50, 51, 52, 53, 54>>
P_long == <<120, 121, 122, 45, 108, 111, 110, 103, 45, 120>>
P_empty == <<>>
CmdPayloads == {P_on, P_off, P_onX, P_offX, P_on_nul, P_off_nul, P_sim, P_si,
                P_other, P_on_long, P_long, P_empty}

\* what the stack may hold where cmd_buf is allocated: zeroes, the buffer
\* of an earlier write, or other bytes
NoStack == <<0, 0, 0, 0, 0, 0, 0, 0>>
StackImages == { <<0, 0, 0, 0, 0, 0, 0, 0>>,
                 <<115, 105, 109, 45, 111, 110, 0, 0>>,
                 <<115, 105, 109, 45, 111, 102, 102, 0>>,
                 <<170, 170, 170, 170, 170, 170, 170, 170>> }

(***************************************************************************)
(* i2c_soil_drv_write                                                      *)
(***************************************************************************)
\* mutant: the simulation flag is not tested before the byte is stored
WriteSimData_NoSimTest(payload, fault) ==
    IF Len(payload) = 1
    THEN (IF fault THEN 0 ELSE payload[1])
    ELSE sim_data

\* sim_data after the write; copy_from_user zero-fills what it cannot copy
WriteSimData(payload, fault) ==
    IF Len(payload) = 1 /\ use_simulation # 0
    THEN (IF fault THEN 0 ELSE payload[1])
    ELSE sim_data

\* mutant: a 1-byte write switches simulation on
WriteUseSimulation_OneByteEnables(payload, stack, fault) ==
    IF Len(payload) = 1 THEN 1
    ELSE IF fault /\ Len(payload) > 0 THEN use_simulation
    ELSE CmdEffect(CmdBuf(payload, stack), use_simulation)

\* use_simulation after the write
WriteUseSimulation(payload, stack, fault) ==
    IF Len(payload) = 1 THEN use_simulation
    ELSE IF fault /\ Len(payload) > 0 THEN use_simulation
    ELSE CmdEffect(CmdBuf(payload, stack), use_simulation)

\* mutant: the write reports the bytes it copied into cmd_buf
WriteRetval_Copied(payload, fault) ==
    IF fault /\ Len(payload) > 0 THEN 0 - EFAULT
    ELSE Min(MAX_CMD_BUF_SIZE, Len(payload))

\* the value the write returns
WriteRetval(payload, fault) ==
    IF Len(payload) = 1
    THEN (IF use_simulation # 0 /\ fault THEN 0 - EFAULT ELSE 1)
    ELSE (IF fault /\ Len(payload) > 0 THEN 0 - EFAULT ELSE Len(payload))

\* the write as the driver performs it
i2c_soil_drv_write(payload, stack, fault) ==
    /\ sim_data' = WriteSimData(payload, fault)
    /\ use_simulation' = WriteUseSimulation(payload, stack, fault)
    /\ sys_ret' = WriteRetval(payload, fault)
    /\ sys_byte' = -1
    /\ stored' = IF Len(payload) = 1 /\ use_simulation # 0
                 THEN (IF fault THEN 0 ELSE payload[1])
                 ELSE stored

\* no read() is in progress: the locals of the read functions are dead
NoRead ==
    /\ reading' = 0 /\ reread_i' = 0 /\ n_xfer' = 0 /\ n_reread' = 0
    /\ first_failed' = FALSE /\ any_failed' = FALSE /\ all_high' = TRUE

\* the write is recorded as the last call on the device
WriteRecorded(payload) ==
    /\ NoRead
    /\ last_op' = IF Len(payload) = 1 THEN "write1" ELSE "writeN"
    /\ last_arg' = payload

(***************************************************************************)
(* i2c_soil_drv_read                                                       *)
(***************************************************************************)
\* the counts a caller passes to read()
ReadCounts == {1, 2, 8}

\* mutant: the count of the caller is kept
ReadCount_AsRequested(count) == count

\* "count = 1;" at the head of i2c_soil_drv_read
ReadCount(count) == 1

\* the tail of i2c_soil_drv_read: copy_to_user(buf, &moisture, count) and
\* retval = count, for the count the caller asked for
ReadDeliver(moisture, fault) ==
    \E count \in ReadCounts :
        /\ sys_ret' = IF fault THEN 0 - EFAULT ELSE ReadCount(count)
        /\ sys_byte' = IF fault THEN -1 ELSE ByteOf(moisture)

\* i2c_soil_drv_read_sensor has returned retval to i2c_soil_drv_read
ReadSensorReturned(retval, fault) ==
    IF retval < 0
    THEN sys_ret' = retval /\ sys_byte' = -1
    ELSE ReadDeliver(IntToChar(retval), fault)

\* mutant: the sensor is read whatever the flag says
UseSimulatedData_Never(flag) == FALSE

\* if (p_i2c_soil_dev->use_simulation)
UseSimulatedData(flag) == flag # 0

\* entry of i2c_soil_drv_read: the simulated byte at once, or the first
\* hardware transaction is started
i2c_soil_drv_read(fault) ==
    /\ drv_pc = "idle"
    /\ n_reread' = 0 /\ reread_i' = 0
    /\ first_failed' = FALSE /\ any_failed' = FALSE /\ all_high' = TRUE
    /\ reading' = 0
    /\ last_arg' = <<>>
    /\ last_fault' = FALSE
    /\ UNCHANGED <<use_simulation, sim_data, char_signed, stored>>
    /\ IF UseSimulatedData(use_simulation)
       THEN /\ ReadDeliver(ToChar(sim_data), fault)
            /\ drv_pc' = "idle"
            /\ n_xfer' = 0
            /\ last_op' = "read"
       ELSE /\ drv_pc' = "send"
            /\ n_xfer' = 1
            /\ last_op' = "read_hw"
            /\ sys_ret' = 0 /\ sys_byte' = -1

\* a read() that runs to completion: r is the result of the last
\* transaction of i2c_soil_drv_read_sensor
i2c_soil_drv_read_done(r, fault) ==
    IF UseSimulatedData(use_simulation)
    THEN ReadDeliver(ToChar(sim_data), fault)
    ELSE ReadSensorReturned(NormalizeReading(r), fault)

\* i2c_soil_drv_single_read_sensor has returned r: the loop of
\* i2c_soil_drv_read_sensor either sleeps and reads again (i++), or ends
\* and i2c_soil_drv_read delivers the result
SingleReadReturned(r, failed, fault) ==
    /\ reading' = r
    /\ first_failed' = (first_failed \/ (failed /\ n_xfer = 1))
    /\ any_failed' = (any_failed \/ failed)
    /\ all_high' = (all_high /\ ~failed /\ r > I2C_HIGH_OUT_OF_RANGE)
    /\ last_arg' = <<>>
    /\ last_fault' = FALSE
    /\ UNCHANGED <<use_simulation, sim_data, char_signed, stored>>
    /\ IF RereadNeeded(r, reread_i)
       THEN /\ n_reread' = n_reread + 1
            /\ reread_i' = reread_i + 1
            /\ n_xfer' = n_xfer + 1
            /\ drv_pc' = "send"
            /\ last_op' = "read_hw"
            /\ UNCHANGED <<sys_ret, sys_byte>>
       ELSE /\ ReadSensorReturned(NormalizeReading(r), fault)
            /\ drv_pc' = "idle"
            /\ last_op' = "read"
            /\ UNCHANGED <<n_reread, reread_i, n_xfer>>

\* i2c_master_send of the register address pair, then msleep
I2cSendOk ==
    /\ drv_pc = "send"
    /\ drv_pc' = "recv"
    /\ last_op' = "read_hw"
    /\ UNCHANGED <<use_simulation, sim_data, char_signed, reading, reread_i,
                   n_xfer, n_reread, first_failed, any_failed, all_high,
                   sys_ret, sys_byte, last_arg, last_fault, stored>>

\* i2c_master_send fails (retval < 0) or is partial (-EIO)
I2cSendFail ==
    /\ drv_pc = "send"
    /\ \E fault \in BOOLEAN :
         \/ \E e \in TransportErrs : SingleReadReturned(e, TRUE, fault)
         \/ \E c \in PartialCounts : SingleReadReturned(0 - EIO, TRUE, fault)

\* i2c_master_recv of the 2-byte register value, merged into one value
I2cRecvOk ==
    /\ drv_pc = "recv"
    /\ \E hi \in RecvHi, lo \in RecvLo, fault \in BOOLEAN :
         SingleReadReturned(MergeBytes(hi, lo), FALSE, fault)

\* i2c_master_recv fails (retval < 0) or is partial (-EIO)
I2cRecvFail ==
    /\ drv_pc = "recv"
    /\ \E fault \in BOOLEAN :
         \/ \E e \in TransportErrs : SingleReadReturned(e, TRUE, fault)
         \/ \E c \in PartialCounts : SingleReadReturned(0 - EIO, TRUE, fault)

(***************************************************************************)
(* SpecDrv: user processes call read() and write() on the device.          *)
(***************************************************************************)
\* write(fd, &b, 1)
UserWrite1 ==
    /\ drv_pc = "idle"
    /\ \E b \in SimBytes, fault \in BOOLEAN :
         /\ i2c_soil_drv_write(<<b>>, NoStack, fault) /\ WriteRecorded(<<b>>)
         /\ last_fault' = fault
    /\ UNCHANGED <<char_signed, drv_pc>>

\* write(fd, payload, count) with count # 1
UserWriteCmd ==
    /\ drv_pc = "idle"
    /\ \E p \in CmdPayloads, stack \in StackImages, fault \in BOOLEAN :
         /\ i2c_soil_drv_write(p, stack, fault) /\ WriteRecorded(p)
         /\ last_fault' = fault
    /\ UNCHANGED <<char_signed, drv_pc>>

\* read(fd, buf, count)
UserRead ==
    \E fault \in BOOLEAN : i2c_soil_drv_read(fault)

\* i2c_soil_drv_init: memset(&i2c_soil_device, 0, ...)
DrvInit ==
    /\ use_simulation = 0
    /\ sim_data = 0
    /\ char_signed \in BOOLEAN
    /\ drv_pc = "idle"
    /\ reading = 0 /\ reread_i = 0 /\ n_xfer = 0 /\ n_reread = 0
    /\ first_failed = FALSE /\ any_failed = FALSE /\ all_high = TRUE
    /\ sys_ret = 0 /\ sys_byte = -1
    /\ last_op = "none" /\ last_arg = <<>> /\ last_fault = FALSE
    /\ stored = 0

\* mqtt_client_connect is not running
NoConnect == [pos |-> "none", count |-> 0, n |-> 0, sleeps |-> 0]

\* no telemetry
MqttIdle ==
    /\ mqtt_opt = FALSE /\ m_conn = NoConnect /\ cb_conn = NoConnect
    /\ cb_ret = "none" /\ mq_up = FALSE /\ pub_ret = "none"

NormIdle == norm_in = 0 /\ norm_out = 0 - 1

TestIdle == test_pc = "off" /\ HEX_IN = 0 /\ HEX_OUT = 0

\* soil-monitor is not running
AppIdle ==
    /\ sim_opt = FALSE /\ target = 0 /\ ptr_size = 0
    /\ pc = "off" /\ hpc = "none" /\ gstep = 0 /\ exit_status = -1
    /\ current = 0 /\ blocked = {}
    /\ exported = FALSE /\ direction = "in" /\ value = 0
    /\ n_sig = 0 /\ disable_fault = FALSE /\ enabled_ok = FALSE
    /\ sig_at = <<>> /\ it_seq = <<>> /\ prev_iter = <<>>
    /\ read_failed = FALSE
    /\ g_fn = "none" /\ g_ret = <<>> /\ g_pre = FALSE /\ g_writes = <<>>
    /\ g_prev = <<>> /\ g_enabled = FALSE
    /\ MqttIdle

InitDrv == DrvInit /\ NormIdle /\ TestIdle /\ AppIdle

NextDrv ==
    \/ (UserWrite1 /\ UNCHANGED <<normVars, testVars, appVars>>)
    \/ (UserWriteCmd /\ UNCHANGED <<normVars, testVars, appVars>>)
    \/ (UserRead /\ UNCHANGED <<normVars, testVars, appVars>>)
    \/ (I2cSendOk /\ UNCHANGED <<normVars, testVars, appVars>>)
    \/ (I2cSendFail /\ UNCHANGED <<normVars, testVars, appVars>>)
    \/ (I2cRecvOk /\ UNCHANGED <<normVars, testVars, appVars>>)
    \/ (I2cRecvFail /\ UNCHANGED <<normVars, testVars, appVars>>)

SpecDrv == InitDrv /\ [][NextDrv]_vars

(***************************************************************************)
(* SpecNorm: the normalisation of one raw reading.                         *)
(***************************************************************************)
RawReadings == (0 - NormPad)..(I2C_HIGH_OUT_OF_RANGE + NormPad)

InitNorm ==
    /\ DrvInit
    /\ TestIdle
    /\ AppIdle
    /\ norm_in \in RawReadings
    /\ norm_out = 0 - 1

NormStep ==
    /\ norm_out = 0 - 1
    /\ norm_out' = NormalizeReading(norm_in)
    /\ norm_out' >= 0
    /\ UNCHANGED <<norm_in, drvVars, testVars, appVars>>

NormFail ==
    /\ norm_out = 0 - 1
    /\ NormalizeReading(norm_in) < 0
    /\ norm_out' = 0 - 2
    /\ UNCHANGED <<norm_in, drvVars, testVars, appVars>>

NextNorm == NormStep \/ NormFail

SpecNorm == InitNorm /\ [][NextNorm]_vars

(***************************************************************************)
(* SpecSim: i2c-soil-drv-test.sh. sim_on, then write_and_verify for the    *)
(* values 0..255, 255..0 and 51 random values, then sim_off.  The order of *)
(* the values is left free, so every order of the script is a behaviour.   *)
(***************************************************************************)
InitSim ==
    /\ DrvInit
    /\ NormIdle
    /\ AppIdle
    /\ test_pc = "start" /\ HEX_IN = 0 /\ HEX_OUT = 0

\* sim_on: echo -n $SIM_ON_CMD > $I2C_SOIL_DEV
sim_on ==
    /\ test_pc = "start"
    /\ \E stack \in StackImages : i2c_soil_drv_write(SIM_ON_CMD, stack, FALSE)
    /\ WriteRecorded(SIM_ON_CMD) /\ last_fault' = FALSE
    /\ test_pc' = "loop"
    /\ UNCHANGED <<char_signed, drv_pc, normVars, appVars, HEX_IN, HEX_OUT>>

\* write_and_verify: echo -ne "$HEX_IN" > $I2C_SOIL_DEV
write_and_verify_write ==
    /\ test_pc = "loop"
    /\ \E b \in Byte :
         /\ HEX_IN' = b
         /\ i2c_soil_drv_write(<<b>>, NoStack, FALSE)
         /\ WriteRecorded(<<b>>) /\ last_fault' = FALSE
    /\ test_pc' = "written"
    /\ UNCHANGED <<char_signed, drv_pc, normVars, appVars, HEX_OUT>>

\* write_and_verify: dd if=$I2C_SOIL_DEV count=1 bs=1; the script runs in
\* simulation, where the read() returns at once
write_and_verify_read ==
    /\ test_pc = "written"
    /\ use_simulation # 0
    /\ i2c_soil_drv_read(FALSE)
    /\ HEX_OUT' = sys_byte'
    /\ test_pc' = "compare"
    /\ UNCHANGED <<normVars, appVars, HEX_IN>>

\* write_and_verify: if [ $HEX_IN != $HEX_OUT ]; then ... exit 1
write_and_verify_compare ==
    /\ test_pc = "compare"
    /\ test_pc' = IF HEX_IN # HEX_OUT THEN "FAILED" ELSE "loop"
    /\ UNCHANGED <<drvVars, normVars, appVars, HEX_IN, HEX_OUT>>

\* sim_off: echo -n $SIM_OFF_CMD > $I2C_SOIL_DEV
sim_off ==
    /\ test_pc = "loop"
    /\ \E stack \in StackImages : i2c_soil_drv_write(SIM_OFF_CMD, stack, FALSE)
    /\ WriteRecorded(SIM_OFF_CMD) /\ last_fault' = FALSE
    /\ test_pc' = "PASS"
    /\ UNCHANGED <<char_signed, drv_pc, normVars, appVars, HEX_IN, HEX_OUT>>

NextSim ==
    \/ sim_on
    \/ write_and_verify_write
    \/ write_and_verify_read
    \/ write_and_verify_compare
    \/ sim_off

SpecSim == InitSim /\ [][NextSim]_vars

(***************************************************************************)
(* soil-monitor: GPIO routines on the sysfs pin (gpio.c).                  *)
(*                                                                         *)
(* A gpio function is a sequence of open/write steps on control files;     *)
(* gstep is the next step of the function that is running: 1 and 2 are    *)
(* the open and the write of its first file, 3 and 4 those of its second.  *)
(***************************************************************************)
\* inputs of the application model
Targets == {0, 128}
AppSimBytes == {100, 128, 150}
\* results of the last hardware transaction of a read() of main(): the
\* bytes received, or the error of the transfer
AppRecv == {<<2, 0>>, <<2, 255>>, <<3, 160>>, <<16, 0>>}
AppTransportErrs == {0 - 121}
TerminalSignals == {"SIGINT", "SIGTERM"}
\* the byte after the literal "sim-on" and its NUL, read when
\* sizeof(sim_cmd) is 8
BytesAfterLiteral == {0, 115}
\* signals delivered to the process in one run
MaxSignals == 2

GPIO_ERROR == 0 - 1
GPIO_OK == 0
EXIT_SUCCESS == 0
EXIT_FAILURE == 1

\* positions of a program that calls the gpio functions in any order
TestCalls == {"t_enable", "t_disable", "t_on", "t_off"}

\* the gpio function the running context is in
GpioFn ==
    IF hpc = "h_disable" THEN "gpio_disable"
    ELSE IF hpc # "none" THEN "none"
    ELSE IF pc = "fatal_disable" THEN "gpio_disable"
    ELSE IF pc \in {"gpio_enable", "gpio_on", "gpio_off"} THEN pc
    ELSE IF pc = "t_enable" THEN "gpio_enable"
    ELSE IF pc = "t_disable" THEN "gpio_disable"
    ELSE IF pc = "t_on" THEN "gpio_on"
    ELSE IF pc = "t_off" THEN "gpio_off"
    ELSE "none"

\* mutant: gpio_disable unexports before it sets the direction
GpioFile_UnexportFirst(fn, step) ==
    IF fn = "gpio_enable" THEN (IF step <= 2 THEN "export" ELSE "direction")
    ELSE IF fn = "gpio_disable" THEN (IF step <= 2 THEN "unexport" ELSE "direction")
    ELSE "value"

\* the control file a step of a gpio function opens and writes
GpioFile(fn, step) ==
    IF fn = "gpio_enable" THEN (IF step <= 2 THEN "export" ELSE "direction")
    ELSE IF fn = "gpio_disable" THEN (IF step <= 2 THEN "direction" ELSE "unexport")
    ELSE "value"

\* mutant: gpio_on and gpio_off write each other's value
GpioData_OnOffSwapped(fn, step) ==
    IF fn = "gpio_enable" THEN (IF step <= 2 THEN "17" ELSE "out")
    ELSE IF fn = "gpio_disable" THEN (IF step <= 2 THEN "in" ELSE "17")
    ELSE IF fn = "gpio_on" THEN "0"
    ELSE "1"

\* the string written to it
GpioData(fn, step) ==
    IF fn = "gpio_enable" THEN (IF step <= 2 THEN "17" ELSE "out")
    ELSE IF fn = "gpio_disable" THEN (IF step <= 2 THEN "in" ELSE "17")
    ELSE IF fn = "gpio_on" THEN "1"
    ELSE "0"

\* mutant: gpio_disable returns after the direction, without the unexport
GpioLastStep_DirectionOnly(fn) == IF fn = "gpio_enable" THEN 4 ELSE 2

\* the last step of the function
GpioLastStep(fn) == IF fn \in {"gpio_enable", "gpio_disable"} THEN 4 ELSE 2

\* mutant: the files of the pin exist whether it is exported or not
CanOpen_Always(file) == TRUE

\* sysfs: export and unexport always exist, the pin's files while exported
CanOpen(file) == file \in {"export", "unexport"} \/ exported

\* mutant: an exported pin can be exported again
CanWrite_ExportAgain(file, data) ==
    IF file = "export" THEN TRUE
    ELSE IF file = "unexport" THEN exported
    ELSE IF file = "direction" THEN exported
    ELSE exported /\ direction = "out"

\* sysfs: whether the kernel accepts the write
CanWrite(file, data) ==
    IF file = "export" THEN ~exported
    ELSE IF file = "unexport" THEN exported
    ELSE IF file = "direction" THEN exported
    ELSE exported /\ direction = "out"

\* sysfs: the pin after an accepted write; an exported pin starts as an
\* input, direction "out" drives it low
PinAfterWrite(file, data) ==
    IF file = "export" THEN <<TRUE, "in", 0>>
    ELSE IF file = "unexport" THEN <<FALSE, "in", 0>>
    ELSE IF file = "direction" THEN
        <<exported, data, IF data = "out" THEN 0 ELSE value>>
    ELSE <<exported, direction, IF data = "1" THEN 1 ELSE 0>>

\* the pin drives the pump relay
PumpOn == exported /\ direction = "out" /\ value = 1

\* mutant: main() publishes without a broker URI
Via_Always(pub, next) == pub

\* if (mqtt_broker_uri) mqtt_publish_msg(...): main() passes through the
\* publish only with telemetry
Via(pub, next) == IF mqtt_opt THEN pub ELSE next

\* mutant: the handler reports a failed gpio_disable()
HandlerExitStatus_ByResult(ret) ==
    IF ret = GPIO_ERROR THEN EXIT_FAILURE ELSE EXIT_SUCCESS

\* (void) gpio_disable(); exit(EXIT_SUCCESS); in signal_handler
HandlerExitStatus(ret) == EXIT_SUCCESS

\* mutant: main() calls gpio_disable() when gpio_enable() has failed
AfterGpio_EnableCleansUp(fn, ret) ==
    IF hpc = "h_disable" THEN <<pc, "h_exit", HandlerExitStatus(ret)>>
    ELSE IF pc \in TestCalls
    THEN <<"t_idle", "none", exit_status>>
    ELSE IF pc = "fatal_disable" THEN <<"exit", "none", EXIT_FAILURE>>
    ELSE IF pc = "gpio_enable" THEN
        (IF ret = GPIO_ERROR THEN <<"fatal_disable", "none", exit_status>>
         ELSE <<"malloc", "none", exit_status>>)
    ELSE IF pc = "gpio_on" THEN
        (IF ret = GPIO_ERROR THEN <<"fatal_disable", "none", exit_status>>
         ELSE <<Via("pub_on", "pump_sleep"), "none", exit_status>>)
    ELSE
        (IF ret = GPIO_ERROR THEN <<"fatal_disable", "none", exit_status>>
         ELSE <<Via("pub_off", "poll_sleep"), "none", exit_status>>)

\* where the caller of a gpio function goes on its return value
\* <<pc, hpc, exit_status>>
AfterGpio(fn, ret) ==
    IF hpc = "h_disable" THEN <<pc, "h_exit", HandlerExitStatus(ret)>>
    ELSE IF pc \in TestCalls
    THEN <<"t_idle", "none", exit_status>>
    ELSE IF pc = "fatal_disable" THEN <<"exit", "none", EXIT_FAILURE>>
    ELSE IF pc = "gpio_enable" THEN
        (IF ret = GPIO_ERROR THEN <<"exit", "none", EXIT_FAILURE>>
         ELSE <<"malloc", "none", exit_status>>)
    ELSE IF pc = "gpio_on" THEN
        (IF ret = GPIO_ERROR THEN <<"fatal_disable", "none", exit_status>>
         ELSE <<Via("pub_on", "pump_sleep"), "none", exit_status>>)
    ELSE
        (IF ret = GPIO_ERROR THEN <<"fatal_disable", "none", exit_status>>
         ELSE <<Via("pub_off", "poll_sleep"), "none", exit_status>>)

\* the gpio function returns ret to its caller
GpioReturn(fn, ret) ==
    /\ pc' = AfterGpio(fn, ret)[1]
    /\ hpc' = AfterGpio(fn, ret)[2]
    /\ exit_status' = AfterGpio(fn, ret)[3]
    /\ gstep' = IF AfterGpio(fn, ret)[1] = "fatal_disable" /\ hpc = "none"
                THEN 1 ELSE 0
    /\ enabled_ok' = (enabled_ok \/ (fn = "gpio_enable" /\ ret = GPIO_OK))
    /\ it_seq' = IF hpc # "none" \/ pc \in TestCalls THEN it_seq
                 ELSE IF AfterGpio(fn, ret)[1] = "fatal_disable"
                 THEN it_seq \o <<"gpio_disable">>
                 ELSE IF fn = "gpio_on" THEN it_seq \o <<"sleep">>
                 ELSE it_seq
    /\ g_ret' = <<ret>>
    /\ g_enabled' = IF ret # GPIO_OK THEN g_enabled
                    ELSE IF fn = "gpio_enable" THEN TRUE
                    ELSE IF fn = "gpio_disable" THEN FALSE
                    ELSE g_enabled

\* the gpio function goes on to its next step
GpioContinue ==
    /\ gstep' = gstep + 1
    /\ g_ret' = <<>>
    /\ UNCHANGED <<pc, hpc, exit_status, enabled_ok, it_seq, g_enabled>>

\* one open() of a gpio function: odd steps; the first open() is the
\* start of the call
GpioOpen ==
    /\ GpioFn # "none" /\ gstep \in {1, 3}
    /\ pc # "exited"
    /\ g_fn' = GpioFn
    /\ g_pre' = IF gstep = 1 THEN exported ELSE g_pre
    /\ g_writes' = IF gstep = 1 THEN <<>> ELSE g_writes
    /\ g_prev' = IF gstep # 1 THEN g_prev
                 ELSE IF g_fn = "none" THEN <<>>
                 ELSE <<g_fn, g_ret>>
    /\ \E ok \in BOOLEAN :
         /\ ok => CanOpen(GpioFile(GpioFn, gstep))
         /\ disable_fault' =
              (disable_fault \/ (GpioFn = "gpio_disable" /\ ~ok
                                 /\ CanOpen(GpioFile(GpioFn, gstep))))
         /\ IF ok
            THEN GpioContinue
            ELSE GpioReturn(GpioFn, GPIO_ERROR)
    /\ UNCHANGED pinVars

\* mutant: a write of fewer bytes is taken for a complete one
StepOk_ShortAccepted(res) == res \in {"full", "short"}

\* (write(fd, data, num_bytes) != num_bytes) || close(fd) is false
StepOk(res) == res = "full"

\* one write() and close() of a gpio function: even steps.  The write
\* transfers all bytes ("full"), fewer ("short") or fails ("error"), or
\* it transfers all bytes and the close() fails ("close_error"); a write
\* of all bytes is one that sysfs accepts, and it changes the pin.
GpioWrite ==
    /\ GpioFn # "none" /\ gstep \in {2, 4}
    /\ pc # "exited"
    /\ \E res \in {"full", "short", "error", "close_error"} :
         LET file == GpioFile(GpioFn, gstep)
             data == GpioData(GpioFn, gstep)
             can == CanWrite(file, data)
             written == res \in {"full", "close_error"}
         IN  /\ written => can
             /\ disable_fault' =
                  (disable_fault \/ (GpioFn = "gpio_disable" /\ res # "full"
                                     /\ can))
             /\ g_writes' = Append(g_writes, <<file, data, written>>)
             /\ IF written
                THEN /\ exported' = PinAfterWrite(file, data)[1]
                     /\ direction' = PinAfterWrite(file, data)[2]
                     /\ value' = PinAfterWrite(file, data)[3]
                ELSE UNCHANGED pinVars
             /\ IF ~StepOk(res)
                THEN GpioReturn(GpioFn, GPIO_ERROR)
                ELSE IF gstep = GpioLastStep(GpioFn)
                THEN GpioReturn(GpioFn, GPIO_OK)
                ELSE GpioContinue
    /\ UNCHANGED <<g_fn, g_pre, g_prev>>

GpioFrame ==
    UNCHANGED <<drvVars, normVars, testVars, cfgVars, sigVars, mqttVars,
                current, prev_iter, read_failed>>

gpio_open_step == GpioOpen /\ GpioFrame
gpio_write_step == GpioWrite /\ GpioFrame

(***************************************************************************)
(* SpecGpio: a program calls the functions of gpio.h, one after the other  *)
(* in any order (gpio-test.c makes one such sequence of calls).            *)
(***************************************************************************)
InitGpio ==
    /\ DrvInit /\ NormIdle /\ TestIdle
    /\ sim_opt = FALSE /\ target = 0 /\ ptr_size = 0
    /\ pc = "t_idle" /\ hpc = "none" /\ gstep = 0 /\ exit_status = -1
    /\ current = 0 /\ blocked = {}
    /\ \E pin \in {<<FALSE, "in", 0>>, <<TRUE, "out", 0>>, <<TRUE, "out", 1>>} :
         exported = pin[1] /\ direction = pin[2] /\ value = pin[3]
    /\ n_sig = 0 /\ disable_fault = FALSE /\ enabled_ok = FALSE
    /\ sig_at = <<>> /\ it_seq = <<>> /\ prev_iter = <<>>
    /\ read_failed = FALSE
    /\ g_fn = "none" /\ g_ret = <<>> /\ g_pre = FALSE /\ g_writes = <<>>
    /\ g_prev = <<>> /\ g_enabled = FALSE
    /\ MqttIdle

\* the program calls one of the four functions
gpio_call ==
    /\ pc = "t_idle"
    /\ \E f \in TestCalls : pc' = f
    /\ gstep' = 1
    /\ UNCHANGED <<drvVars, normVars, testVars, cfgVars, pinVars, callVars, mqttVars,
                   sigVars, loopVars, hpc, exit_status, disable_fault,
                   enabled_ok>>

NextGpio ==
    \/ gpio_call
    \/ gpio_open_step
    \/ gpio_write_step

SpecGpio == InitGpio /\ [][NextGpio]_vars

(***************************************************************************)
(* soil-monitor: main() and signal_handler (soil-monitor.c).               *)
(*                                                                         *)
(* A read() of main() runs to completion inside the driver: msleep is not  *)
(* interruptible and a signal is handled on the return to user mode, so    *)
(* the application sees the read() as one step (SpecDrv has its steps).    *)
(* A signal that arrives during the call is one delivered at pc = "read".  *)
(***************************************************************************)
\* only the running context takes steps: main() outside a handler
InMain == hpc = "none" /\ pc \notin {"off", "exited"}

\* exit(status) is called from main()
CallExit(status) == pc' = "exit" /\ exit_status' = status

\* the bytes write(soil_drv_fd, sim_cmd, sizeof(sim_cmd)) passes: the
\* first sizeof(sim_cmd) bytes at the string literal, its NUL included,
\* and for "sim-on" with 8-byte pointers the byte that follows
StartupPayload(opt, size, after) ==
    SubSeq(IF opt THEN SIM_ON_CMD \o <<0, after>> ELSE SIM_OFF_CMD \o <<0>>,
           1, size)

\* open(I2C_SOIL_DEV, O_RDWR)
main_open ==
    /\ InMain /\ pc = "open_dev"
    /\ \/ pc' = "sim_cmd" /\ UNCHANGED exit_status
       \/ CallExit(EXIT_FAILURE)
    /\ UNCHANGED <<drvVars, normVars, testVars, cfgVars, pinVars, callVars, mqttVars,
                   sigVars,
                   loopVars, hpc, gstep, disable_fault, enabled_ok>>

\* write(soil_drv_fd, sim_cmd, sizeof(sim_cmd)), then gpio_enable() is
\* entered
main_sim_cmd ==
    /\ InMain /\ pc = "sim_cmd"
    /\ \E after \in BytesAfterLiteral, stack \in StackImages :
         i2c_soil_drv_write(StartupPayload(sim_opt, ptr_size, after), stack, FALSE)
    /\ IF sys_ret' # ptr_size
       THEN CallExit(EXIT_FAILURE) /\ UNCHANGED gstep
       ELSE pc' = "gpio_enable" /\ gstep' = 1 /\ UNCHANGED exit_status
    /\ UNCHANGED <<char_signed, drv_pc, reading, reread_i, n_xfer, n_reread,
                   first_failed, any_failed, all_high, last_op, last_arg,
                   last_fault>>
    /\ UNCHANGED <<normVars, testVars, cfgVars, pinVars, callVars, mqttVars,
                   sigVars, loopVars,
                   hpc, disable_fault, enabled_ok>>

\* msgbuf = malloc(MQTT_MSG_BUFSIZE)
main_malloc ==
    /\ InMain /\ pc = "malloc"
    /\ \/ pc' = Via("pub_init", "read") /\ UNCHANGED exit_status
       \/ CallExit(EXIT_FAILURE)
    /\ UNCHANGED <<drvVars, normVars, testVars, cfgVars, pinVars, callVars, mqttVars,
                   sigVars,
                   loopVars, hpc, gstep, disable_fault, enabled_ok>>

\* the pump is needed
\* mutant: the comparison is not strict
PumpNeeded_Inclusive(cur, tgt) == cur <= tgt

PumpNeeded(cur, tgt) == cur < tgt

\* where main() goes on the return value ret of the read() and the byte
\* it stored in current
\* mutant: a failed read is skipped and the loop goes on
AfterRead_Continue(ret, cur, tgt) ==
    IF ret = 1 /\ PumpNeeded(cur, tgt) THEN "gpio_on" ELSE "poll_sleep"

AfterRead(ret, cur, tgt) ==
    IF ret # 1 THEN "fatal_disable"
    ELSE IF PumpNeeded(cur, tgt) THEN "gpio_on"
    ELSE "poll_sleep"

\* read(soil_drv_fd, &current, sizeof(current)): a failed read ends the
\* run through gpio_disable(); else current < target decides on the pump
main_read ==
    /\ InMain /\ pc = "read"
    /\ \E r \in {MergeBytes(b[1], b[2]) : b \in AppRecv}
                  \cup AppTransportErrs \cup {0 - EIO} :
         i2c_soil_drv_read_done(r, FALSE)
    /\ current' = IF sys_ret' = 1 THEN sys_byte' ELSE current
    /\ read_failed' = (sys_ret' # 1)
    /\ pc' = IF sys_ret' = 1 THEN Via("pub_current",
                                     AfterRead(sys_ret', current', target))
             ELSE AfterRead(sys_ret', current', target)
    /\ gstep' = IF pc' \in {"poll_sleep", "pub_current"} THEN 0 ELSE 1
    /\ it_seq' = IF pc' \in {"poll_sleep", "pub_current"} THEN <<>>
                 ELSE IF pc' = "gpio_on" THEN <<"gpio_on">>
                 ELSE <<"gpio_disable">>
    /\ pub_ret' = "none"
    /\ cb_ret' = IF cb_ret = "fail" THEN "fail_read" ELSE cb_ret
    /\ UNCHANGED <<mqtt_opt, m_conn, cb_conn, mq_up>>
    /\ UNCHANGED <<use_simulation, sim_data, char_signed, drv_pc, reading,
                   reread_i, n_xfer, n_reread, first_failed, any_failed,
                   all_high, last_op, last_arg, last_fault, stored>>
    /\ UNCHANGED <<normVars, testVars, cfgVars, pinVars, callVars, sigVars,
                   hpc, exit_status, disable_fault, enabled_ok, prev_iter>>

\* mutant: after the pump time main() goes to the poll sleep without
\* gpio_off()
PumpSleepReturns_SkipsOff ==
    /\ pc' = "poll_sleep" /\ gstep' = 0
    /\ UNCHANGED <<current, it_seq, prev_iter, read_failed>>

\* sleep(pump_time) returns, gpio_off() is entered
PumpSleepReturns ==
    /\ pc' = "gpio_off" /\ gstep' = 1
    /\ it_seq' = it_seq \o <<"gpio_off">>
    /\ UNCHANGED <<current, prev_iter, read_failed>>

\* sleep(sleep_time) returns, the next iteration starts
PollSleepReturns ==
    /\ pc' = "read" /\ gstep' = 0
    /\ prev_iter' = <<current, it_seq, prev_iter = <<>>>>
    /\ it_seq' = <<>>
    /\ UNCHANGED <<current, read_failed>>

main_pump_sleep ==
    /\ InMain /\ pc = "pump_sleep"
    /\ PumpSleepReturns
    /\ UNCHANGED <<drvVars, normVars, testVars, cfgVars, pinVars, callVars, mqttVars,
                   sigVars,
                   hpc, exit_status, disable_fault, enabled_ok>>

main_poll_sleep ==
    /\ InMain /\ pc = "poll_sleep"
    /\ PollSleepReturns
    /\ UNCHANGED <<drvVars, normVars, testVars, cfgVars, pinVars, callVars, mqttVars,
                   sigVars,
                   hpc, exit_status, disable_fault, enabled_ok>>

\* exit() called by main() ends the process
main_exit ==
    /\ InMain /\ pc = "exit"
    /\ pc' = "exited"
    /\ UNCHANGED <<drvVars, normVars, testVars, cfgVars, pinVars, callVars, mqttVars,
                   sigVars,
                   loopVars, hpc, gstep, exit_status, disable_fault,
                   enabled_ok>>

\* exit(EXIT_SUCCESS) called by signal_handler ends the process
handler_exit ==
    /\ hpc = "h_exit" /\ pc # "exited"
    /\ pc' = "exited"
    /\ UNCHANGED <<drvVars, normVars, testVars, cfgVars, pinVars, callVars, mqttVars,
                   sigVars,
                   loopVars, hpc, gstep, exit_status, disable_fault,
                   enabled_ok>>

\* mutant: signal_handler exits without gpio_disable()
HandlerAfter_NoCleanup(sig) == IF sig = "SIGUSR1" THEN hpc ELSE "h_exit"

\* mutant: signal_handler cleans up and exits on every signal
HandlerAfter_AlwaysExit(sig) == "h_disable"

\* the position of signal_handler after "if (SIGUSR1 == signal)": it
\* returns at once on SIGUSR1 and goes on to gpio_disable() on the others
HandlerAfter(sig) == IF sig = "SIGUSR1" THEN hpc ELSE "h_disable"

\* signal_handler(SIGINT | SIGTERM) starts on top of what was running,
\* which never resumes (the handler ends in exit()), so the locals of
\* main() are dead from here on
signal_handler_terminal ==
    /\ pc \notin {"off", "exited"}
    /\ n_sig < MaxSignals
    /\ \E sig \in TerminalSignals \ blocked :
         /\ blocked' = blocked \cup {sig}
         /\ hpc' = HandlerAfter(sig)
    /\ n_sig' = n_sig + 1
    /\ gstep' = 1
    /\ sig_at' = IF enabled_ok /\ sig_at = <<>> THEN <<pc, gstep>> ELSE sig_at
    /\ current' = 0 /\ it_seq' = <<>> /\ prev_iter' = <<>>
    /\ UNCHANGED <<drvVars, normVars, testVars, cfgVars, pinVars, callVars, mqttVars,
                   pc,
                   exit_status, disable_fault, enabled_ok, read_failed>>

\* signal_handler(SIGUSR1) does nothing and returns; a sleep() of main()
\* that it interrupts returns early
signal_handler_usr1 ==
    /\ pc \notin {"off", "exited"}
    /\ n_sig < MaxSignals
    /\ n_sig' = n_sig + 1
    /\ IF hpc = "none" /\ pc = "pump_sleep" THEN PumpSleepReturns
       ELSE IF hpc = "none" /\ pc = "poll_sleep" THEN PollSleepReturns
       ELSE UNCHANGED <<pc, gstep, loopVars>>
    /\ hpc' = HandlerAfter("SIGUSR1")
    /\ UNCHANGED <<drvVars, normVars, testVars, cfgVars, pinVars, callVars, mqttVars,
                   exit_status, blocked, sig_at, disable_fault, enabled_ok>>

\* another process writes a simulated value to the device while main()
\* runs in simulation
other_write ==
    /\ InMain /\ pc \in {"read", "pump_sleep", "poll_sleep"}
    /\ use_simulation # 0
    /\ \E b \in AppSimBytes : i2c_soil_drv_write(<<b>>, NoStack, FALSE)
    /\ UNCHANGED <<char_signed, drv_pc, reading, reread_i, n_xfer, n_reread,
                   first_failed, any_failed, all_high, last_op, last_arg,
                   last_fault>>
    /\ UNCHANGED <<normVars, testVars, appVars>>

(***************************************************************************)
(* soil-monitor: telemetry (mqtt_client_init, mqtt_client_connect,         *)
(* mqtt_connection_lost, mqtt_publish_msg).  The library calls             *)
(* mqtt_connection_lost on a thread of its own, so the callback runs       *)
(* beside main().                                                          *)
(***************************************************************************)
\* the 5 of "conn_attempt_count < 5"
MQTT_RETRIES == 5

\* mutant: one retry fewer
RetryAllowed_Four(count) == count < MQTT_RETRIES - 1

\* the loop of mqtt_client_connect goes on after a failed attempt
RetryAllowed(count) == count < MQTT_RETRIES

\* one MQTTClient_connect of mqtt_client_connect with result ok: the
\* first one at "attempt"; at "sleep" the sleep(5) ends, the attempt is
\* made and conn_attempt_count++
ConnectStep(f, ok) ==
    LET c1 == IF f.pos = "sleep" THEN f.count + 1 ELSE f.count
    IN  [pos |-> IF ok THEN "ret_ok"
                 ELSE IF RetryAllowed(c1) THEN "sleep"
                 ELSE "ret_fail",
         count |-> c1,
         n |-> f.n + 1,
         sleeps |-> IF f.pos = "sleep" THEN f.sleeps + 1 ELSE f.sleeps]

\* mqtt_client_connect is entered
ConnectEntry == [pos |-> "attempt", count |-> 0, n |-> 0, sleeps |-> 0]

\* positions of main() at a mqtt_publish_msg
PubPcs == {"pub_init", "pub_current", "pub_on", "pub_off", "pub_sleep"}

\* mutant: a failed publish ends the run like a failed read
AfterPublish_FatalOnFailure(p, ret) ==
    IF ret = "fail" THEN "fatal_disable"
    ELSE IF p = "pub_init" THEN "read"
    ELSE IF p = "pub_current" THEN
        (IF AfterRead(1, current, target) = "gpio_on" THEN "gpio_on"
         ELSE "pub_sleep")
    ELSE IF p = "pub_on" THEN "pump_sleep"
    ELSE IF p = "pub_off" THEN "pub_sleep"
    ELSE "poll_sleep"

\* where main() goes after the mqtt_publish_msg at p; the result of the
\* publish is logged and not returned
AfterPublish(p, ret) ==
    IF p = "pub_init" THEN "read"
    ELSE IF p = "pub_current" THEN
        (IF AfterRead(1, current, target) = "gpio_on" THEN "gpio_on"
         ELSE "pub_sleep")
    ELSE IF p = "pub_on" THEN "pump_sleep"
    ELSE IF p = "pub_off" THEN "pub_sleep"
    ELSE "poll_sleep"

\* mutant: a reconnection that failed ends the process
AfterReconnect_Fatal(ret, p) == IF ret = "fail" THEN "exit" ELSE p

\* where main() is after mqtt_connection_lost has returned: the result of
\* mqtt_client_connect is cast to void
AfterReconnect(ret, p) == p

\* MQTTClient_create
main_mqtt_create ==
    /\ InMain /\ pc = "mqtt_create"
    /\ \/ pc' = "mqtt_setcb" /\ UNCHANGED exit_status
       \/ CallExit(EXIT_FAILURE)
    /\ UNCHANGED <<drvVars, normVars, testVars, cfgVars, pinVars, callVars,
                   mqttVars, sigVars, loopVars, hpc, gstep, disable_fault,
                   enabled_ok>>

\* MQTTClient_setCallbacks, then mqtt_client_connect is entered
main_mqtt_setcb ==
    /\ InMain /\ pc = "mqtt_setcb"
    /\ \/ /\ pc' = "mqtt_connect" /\ m_conn' = ConnectEntry
          /\ UNCHANGED exit_status
       \/ CallExit(EXIT_FAILURE) /\ UNCHANGED m_conn
    /\ UNCHANGED <<drvVars, normVars, testVars, cfgVars, pinVars, callVars,
                   sigVars, loopVars, hpc, gstep, disable_fault, enabled_ok,
                   mqtt_opt, cb_conn, cb_ret, mq_up, pub_ret>>

\* a step of mqtt_client_connect called by mqtt_client_init
main_mqtt_connect ==
    /\ InMain /\ pc = "mqtt_connect" /\ m_conn.pos \in {"attempt", "sleep"}
    /\ \E ok \in BOOLEAN :
         /\ m_conn' = ConnectStep(m_conn, ok)
         /\ mq_up' = (mq_up \/ ok)
    /\ UNCHANGED <<drvVars, normVars, testVars, cfgVars, pinVars, callVars,
                   sigVars, loopVars, pc, hpc, gstep, exit_status,
                   disable_fault, enabled_ok, mqtt_opt, cb_conn, cb_ret,
                   pub_ret>>

\* mqtt_client_connect has returned to mqtt_client_init
main_mqtt_init_ret ==
    /\ InMain /\ pc = "mqtt_connect" /\ m_conn.pos \in {"ret_ok", "ret_fail"}
    /\ IF m_conn.pos = "ret_ok"
       THEN pc' = "open_dev" /\ m_conn' = NoConnect /\ UNCHANGED exit_status
       ELSE CallExit(EXIT_FAILURE) /\ UNCHANGED m_conn
    /\ UNCHANGED <<drvVars, normVars, testVars, cfgVars, pinVars, callVars,
                   sigVars, loopVars, hpc, gstep, disable_fault, enabled_ok,
                   mqtt_opt, cb_conn, cb_ret, mq_up, pub_ret>>

\* mutant: a publish that failed starts a connect sequence
PublishConnect_Retry(ret) == IF ret = "fail" THEN ConnectEntry ELSE m_conn

\* the activation of mqtt_client_connect in main() after a
\* mqtt_publish_msg: the function calls MQTTClient_publishMessage only
PublishConnect(ret) == m_conn

\* mqtt_publish_msg: MQTTClient_publishMessage succeeds or fails
main_publish ==
    /\ InMain /\ pc \in PubPcs
    /\ \E ok \in BOOLEAN :
         /\ ok => mq_up
         /\ pub_ret' = IF ok THEN "ok" ELSE "fail"
    /\ pc' = AfterPublish(pc, pub_ret')
    /\ gstep' = IF pc' \in {"gpio_on", "fatal_disable"} THEN 1 ELSE 0
    /\ it_seq' = IF pc' = "gpio_on" THEN <<"gpio_on">> ELSE it_seq
    /\ m_conn' = PublishConnect(pub_ret')
    /\ UNCHANGED <<drvVars, normVars, testVars, cfgVars, pinVars, callVars,
                   sigVars, current, prev_iter, read_failed, hpc, exit_status,
                   disable_fault, enabled_ok, mqtt_opt, cb_conn,
                   cb_ret, mq_up>>

\* the connection to the broker is lost: the library calls
\* mqtt_connection_lost, which enters mqtt_client_connect
connection_lost ==
    /\ pc \notin {"off", "exited"}
    /\ mq_up /\ cb_conn.pos = "none"
    /\ mq_up' = FALSE
    /\ cb_conn' = ConnectEntry
    /\ cb_ret' = "none"
    /\ UNCHANGED <<drvVars, normVars, testVars, cfgVars, pinVars, callVars,
                   sigVars, loopVars, pc, hpc, gstep, exit_status,
                   disable_fault, enabled_ok, mqtt_opt, m_conn, pub_ret>>

\* a step of mqtt_client_connect called by mqtt_connection_lost
callback_connect ==
    /\ pc \notin {"off", "exited"}
    /\ cb_conn.pos \in {"attempt", "sleep"}
    /\ \E ok \in BOOLEAN :
         /\ cb_conn' = ConnectStep(cb_conn, ok)
         /\ mq_up' = (mq_up \/ ok)
    /\ UNCHANGED <<drvVars, normVars, testVars, cfgVars, pinVars, callVars,
                   sigVars, loopVars, pc, hpc, gstep, exit_status,
                   disable_fault, enabled_ok, mqtt_opt, m_conn, cb_ret,
                   pub_ret>>

\* mqtt_connection_lost returns
callback_return ==
    /\ pc \notin {"off", "exited"}
    /\ cb_conn.pos \in {"ret_ok", "ret_fail"}
    /\ cb_ret' = IF cb_conn.pos = "ret_ok" THEN "ok" ELSE "fail"
    /\ cb_conn' = NoConnect
    /\ pc' = AfterReconnect(cb_ret', pc)
    /\ UNCHANGED <<drvVars, normVars, testVars, cfgVars, pinVars, callVars,
                   sigVars, loopVars, hpc, gstep, exit_status, disable_fault,
                   enabled_ok, mqtt_opt, m_conn, mq_up, pub_ret>>

\* the runs with telemetry that are explored: one build, one target, the
\* driver and the pin as they are after boot
TelemetryRun ==
    /\ ptr_size = 8 /\ ~char_signed /\ target = 128
    /\ use_simulation = 0 /\ ~exported

\* the process starts: options parsed, handlers installed; the driver is
\* loaded and may have been left in simulation, the pin may have been left
\* exported by an earlier run or by pump-control.sh
Init ==
    /\ use_simulation \in {0, 1}
    /\ sim_data = 0
    /\ stored = sim_data
    /\ char_signed \in BOOLEAN
    /\ drv_pc = "idle"
    /\ reading = 0 /\ reread_i = 0 /\ n_xfer = 0 /\ n_reread = 0
    /\ first_failed = FALSE /\ any_failed = FALSE /\ all_high = TRUE
    /\ sys_ret = 0 /\ sys_byte = -1
    /\ last_op = "none" /\ last_arg = <<>> /\ last_fault = FALSE
    /\ NormIdle /\ TestIdle
    /\ sim_opt \in BOOLEAN
    /\ target \in Targets
    /\ ptr_size \in {4, 8}
    /\ hpc = "none" /\ gstep = 0 /\ exit_status = -1
    /\ current = 0 /\ blocked = {}
    /\ \E pin \in {<<FALSE, "in", 0>>, <<TRUE, "out", 0>>, <<TRUE, "out", 1>>} :
         exported = pin[1] /\ direction = pin[2] /\ value = pin[3]
    /\ n_sig = 0 /\ disable_fault = FALSE /\ enabled_ok = FALSE
    /\ sig_at = <<>> /\ it_seq = <<>> /\ prev_iter = <<>>
    /\ read_failed = FALSE
    /\ g_fn = "none" /\ g_ret = <<>> /\ g_pre = FALSE /\ g_writes = <<>>
    /\ g_prev = <<>> /\ g_enabled = FALSE
    /\ mqtt_opt \in BOOLEAN
    /\ mqtt_opt => TelemetryRun
    /\ pc = IF mqtt_opt THEN "mqtt_create" ELSE "open_dev"
    /\ m_conn = NoConnect /\ cb_conn = NoConnect
    /\ cb_ret = "none" /\ mq_up = FALSE /\ pub_ret = "none"

Next ==
    \/ main_open
    \/ main_sim_cmd
    \/ gpio_open_step
    \/ gpio_write_step
    \/ main_malloc
    \/ main_read
    \/ main_pump_sleep
    \/ main_poll_sleep
    \/ main_exit
    \/ handler_exit
    \/ signal_handler_terminal
    \/ signal_handler_usr1
    \/ other_write
    \/ main_mqtt_create
    \/ main_mqtt_setcb
    \/ main_mqtt_connect
    \/ main_mqtt_init_ret
    \/ main_publish
    \/ connection_lost
    \/ callback_connect
    \/ callback_return

Spec == Init /\ [][Next]_vars

(***************************************************************************)
(* SpecLive: soil-monitor without telemetry where main() and the signal    *)
(* handler keep running: a step of the program that can be taken is taken  *)
(* in the end (sleeps return, system calls return).  Signals and the       *)
(* writes of other processes come when they come.                          *)
(***************************************************************************)
\* the runs explored: one build, one target, no -m
LocalRun == ~mqtt_opt /\ ptr_size = 8 /\ ~char_signed /\ target = 128

InitLive == Init /\ LocalRun

\* the steps of main() and of signal_handler
ProgramStep ==
    \/ main_open
    \/ main_sim_cmd
    \/ gpio_open_step
    \/ gpio_write_step
    \/ main_malloc
    \/ main_read
    \/ main_pump_sleep
    \/ main_poll_sleep
    \/ main_exit
    \/ handler_exit

NextLive ==
    \/ ProgramStep
    \/ signal_handler_terminal
    \/ signal_handler_usr1
    \/ other_write

SpecLive == InitLive /\ [][NextLive]_vars /\ WF_vars(ProgramStep)

(***************************************************************************)
(* Claims about the application.                                           *)
(***************************************************************************)
\* C1: when SIGINT or SIGTERM is delivered after gpio_enable() returned
\* GPIO_OK, the pin is unexported when the process has exited, wherever
\* main() was at the delivery, provided no open or write of gpio_disable
\* failed on a pin whose state allowed it.
C1_UnexportedAtExit ==
    (pc = "exited" /\ sig_at # <<>> /\ ~disable_fault) => ~exported

\* C1 witness: the signal came during the pump-run sleep, the pump on, and
\* the process has exited with the pin unexported
C1_Witness ==
    /\ pc = "exited" /\ sig_at = <<"pump_sleep", 0>> /\ ~disable_fault
    /\ hpc = "h_exit" /\ exit_status = EXIT_SUCCESS /\ ~exported

\* main() runs, no terminal signal has been handled
MainRuns == hpc = "none"

\* C2: after a failed read() of the loop, main() makes no gpio_on() and
\* leaves the pump off: it calls gpio_disable() and, whatever that
\* returns, exits with EXIT_FAILURE.
C2_FailedReadIsFatal ==
    read_failed =>
        /\ pc \in {"fatal_disable", "exit", "exited"}
        /\ ~PumpOn
        /\ MainRuns => it_seq = <<"gpio_disable">>
        /\ (MainRuns /\ pc \in {"exit", "exited"}) => exit_status = EXIT_FAILURE

\* C2 witness: the read failed, gpio_disable() failed as well, and the
\* process has exited with EXIT_FAILURE
C2_Witness ==
    /\ read_failed /\ MainRuns /\ pc = "exited" /\ exit_status = EXIT_FAILURE
    /\ disable_fault /\ exported

\* C3: an iteration with a successful reading runs the pump exactly when
\* current < target: then it makes gpio_on, the pump sleep and gpio_off in
\* this order, the pump on during the sleep; with current >= target it
\* makes neither gpio_on nor gpio_off.
C3_PumpIffBelowTarget ==
    MainRuns =>
        /\ pc = "poll_sleep" =>
              /\ it_seq = IF current < target
                          THEN <<"gpio_on", "sleep", "gpio_off">>
                          ELSE <<>>
              /\ ~PumpOn
        /\ pc \in {"gpio_on", "pump_sleep", "gpio_off"} => current < target
        /\ pc = "pump_sleep" => (PumpOn /\ it_seq = <<"gpio_on", "sleep">>)

\* C3 witness: target 128, the first iteration read 100 and ran the pump,
\* the second read 150 and did not
C3_Witness ==
    /\ MainRuns /\ pc = "poll_sleep" /\ target = 128
    /\ prev_iter = <<100, <<"gpio_on", "sleep", "gpio_off">>, TRUE>>
    /\ current = 150 /\ it_seq = <<>>

(***************************************************************************)
(* Claims about the driver.                                                *)
(***************************************************************************)
\* a hardware read() has just returned to its caller
HwReadDone == last_op = "read" /\ n_xfer >= 1

\* C4 (as stated): with simulation off, when a hardware transaction fails
\* (send or receive error, or partial transfer) the acquisition fails at
\* once: one transaction attempt, no re-read.
C4_FailsImmediately ==
    (HwReadDone /\ first_failed) =>
        (n_xfer = 1 /\ n_reread = 0 /\ sys_ret < 0)

\* C4 (amended): a failed transaction is handled like an out-of-bounds
\* reading: it is read again after the delay, up to I2C_MAX_REREADS times;
\* the acquisition ends before the 5th attempt only on an in-bounds reading
\* and fails, with -EIO, only when the 5th attempt is also failed or out of
\* bounds.
C4_FailureIsReread ==
    (HwReadDone /\ any_failed) =>
        /\ first_failed => n_xfer >= 2
        /\ n_reread = n_xfer - 1
        /\ n_xfer <= I2C_MAX_REREADS + 1
        /\ (n_xfer < I2C_MAX_REREADS + 1) => ~I2C_READING_OUT_OF_BOUNDS(reading)
        /\ I2C_READING_OUT_OF_BOUNDS(reading) =>
              (n_xfer = I2C_MAX_REREADS + 1 /\ sys_ret = 0 - EIO /\ sys_byte = -1)

\* C4 witness: the first transaction failed and a re-read delivered a byte
C4_Witness ==
    HwReadDone /\ first_failed /\ n_xfer = 2 /\ sys_ret = 1 /\ sys_byte >= 0

\* C5: with simulation off and every transaction succeeding with a raw
\* value above 4095, the acquisition makes exactly I2C_MAX_REREADS + 1 = 5
\* transactions, one delay before each re-read, and fails with -EIO; no
\* read() ever makes a 6th transaction, and no byte is delivered.
C5_PermanentlyOutOfRange ==
    /\ n_xfer <= 5
    /\ n_reread <= I2C_MAX_REREADS
    /\ (drv_pc # "idle" /\ all_high) => n_reread = n_xfer - 1
    /\ (HwReadDone /\ all_high) =>
          /\ n_xfer = I2C_MAX_REREADS + 1
          /\ n_xfer = 5
          /\ n_reread = I2C_MAX_REREADS
          /\ sys_ret = 0 - EIO
          /\ sys_byte = -1

\* C5 witness: five transactions above the ceiling, then the failure
C5_Witness ==
    HwReadDone /\ all_high /\ n_xfer = 5 /\ use_simulation = 0 /\ sys_ret < 0

\* clamp(r, MIN_RAW, MAX_RAW)
Clamp(r) ==
    IF r < I2C_MIN_RAW_DRY_READING THEN I2C_MIN_RAW_DRY_READING
    ELSE IF r > I2C_MAX_RAW_WET_READING THEN I2C_MAX_RAW_WET_READING
    ELSE r

\* C6: for every raw reading r in [0, 4095] the normalised value is
\* clamp(r, 0x2a0, 0x39f) - 0x2a0: 0 up to MIN_RAW, 255 from MAX_RAW on,
\* within [0, 255], and not above the normalised value of r + 1.
C6_Normalize ==
    (norm_in \in 0..I2C_HIGH_OUT_OF_RANGE /\ norm_out # 0 - 1) =>
        /\ norm_out = Clamp(norm_in) - I2C_MIN_RAW_DRY_READING
        /\ norm_out \in 0..255
        /\ (norm_in <= 672) => norm_out = 0
        /\ (norm_in >= 927) => norm_out = 255
        /\ (norm_in < I2C_HIGH_OUT_OF_RANGE) =>
              norm_out <= NormalizeReading(norm_in + 1)

\* C6 witness: MAX_RAW has been normalised to 255
C6_Witness == norm_in = I2C_MAX_RAW_WET_READING /\ norm_out = 255

\* C7: in simulation, a 1-byte write of b followed by a read returns b, for
\* every byte b and after any sequence of earlier writes: the test script
\* never fails, and every comparison it makes sees the byte it wrote.
C7_RoundTrip ==
    /\ test_pc # "FAILED"
    /\ test_pc = "compare" => (sys_ret = 1 /\ HEX_OUT = HEX_IN)

\* C7 witness: 0x80 was written after an earlier write and read back
C7_Witness ==
    test_pc = "compare" /\ HEX_IN = 128 /\ HEX_OUT = 128 /\ stored = 128

\* a step that is a successful write() of exactly this payload
WriteStepOf(p) ==
    last_op' \in {"write1", "writeN"} /\ last_arg' = p /\ sys_ret' = Len(p)
\* the last step was a successful write() of exactly this payload
LastWriteOf(p) ==
    last_op \in {"write1", "writeN"} /\ last_arg = p /\ sys_ret = Len(p)
\* a step that is a read() returning at once with a byte, in simulation
SimReadStep == last_op' = "read" /\ use_simulation # 0 /\ sys_ret' = 1

C9_OnlyExactCommands ==
    [][ (last_op' = "writeN" /\ Len(last_arg') > 1
           /\ last_arg' \notin {SIM_ON_CMD, SIM_OFF_CMD}) =>
            (use_simulation' = use_simulation /\ sim_data' = sim_data)
      ]_vars

\* C10: with simulation off a 1-byte write returns 1 and changes neither
\* sim_data nor use_simulation; a "sim-on" written after it leaves sim_data
\* as it was, and the read after that returns it.
C10_IgnoredWrite ==
    [][ /\ (last_op' = "write1" /\ use_simulation = 0) =>
              /\ sys_ret' = 1
              /\ sim_data' = sim_data /\ use_simulation' = 0
              /\ stored' = stored
        /\ (last_op = "write1" /\ use_simulation = 0 /\ WriteStepOf(SIM_ON_CMD)) =>
              (sim_data' = sim_data /\ sim_data' = stored' /\ use_simulation' = 1)
        /\ SimReadStep => (sys_byte' = sim_data /\ sys_byte' = stored)
      ]_vars

\* C10 witness: 150 stored, simulation off, a 1-byte write of 100 ignored
C10_Witness ==
    /\ last_op = "write1" /\ last_arg = <<100>> /\ use_simulation = 0
    /\ sys_ret = 1 /\ sim_data = 150


\* C11: a write() whose user buffer is readable returns its count, for a
\* 1-byte value with simulation on or off, a recognised command, any other
\* multi-byte payload and a payload longer than cmd_buf.
C11_FullCountConsumed ==
    (last_op \in {"write1", "writeN"} /\ ~last_fault) =>
        /\ sys_ret = Len(last_arg)
        /\ sys_ret >= 0

\* C11 witness: a payload longer than the 8-byte cmd_buf was written and
\* its full length returned
C11_Witness ==
    /\ last_op = "writeN" /\ ~last_fault /\ Len(last_arg) > MAX_CMD_BUF_SIZE
    /\ sys_ret = Len(last_arg)


(***************************************************************************)
(* Claims about the gpio functions.                                        *)
(***************************************************************************)
\* the last call was of fn and has returned
Returned(fn) == g_fn = fn /\ g_ret # <<>>

\* the files written by the last call, in order
WrittenFiles == [k \in 1..Len(g_writes) |-> g_writes[k][1]]

\* C12: a gpio_enable() called right after a gpio_enable() that returned
\* GPIO_OK returns GPIO_ERROR: its write to export fails and it makes no
\* write to direction.
C12_SecondEnableFails ==
    (g_fn = "gpio_enable" /\ g_prev = <<"gpio_enable", <<GPIO_OK>>>>) =>
        /\ \A k \in 1..Len(g_writes) :
              g_writes[k][1] = "export" /\ ~g_writes[k][3]
        /\ g_ret # <<>> => g_ret = <<GPIO_ERROR>>

\* C12 witness: the second gpio_enable() has returned GPIO_ERROR after the
\* failed write to export
C12_Witness ==
    /\ Returned("gpio_enable") /\ g_prev = <<"gpio_enable", <<GPIO_OK>>>>
    /\ g_ret = <<GPIO_ERROR>> /\ g_writes = <<<<"export", "17", FALSE>>>>
    /\ exported /\ direction = "out"

\* C13 (as stated): gpio_disable() returns GPIO_ERROR when no gpio_enable()
\* has returned GPIO_OK since the start or since the last gpio_disable()
\* that returned GPIO_OK, whatever calls were made before.
C13_DisableNeedsEnable ==
    (Returned("gpio_disable") /\ ~g_enabled) => g_ret = <<GPIO_ERROR>>

\* C13 (amended): gpio_disable() returns GPIO_ERROR, without any write,
\* whenever the pin is not exported when it is called; it returns GPIO_OK
\* only on a pin that was exported, which it leaves unexported, and that
\* includes a pin exported by a gpio_enable() that returned GPIO_ERROR.
C13_DisableNeedsExportedPin ==
    Returned("gpio_disable") =>
        /\ ~g_pre => (g_ret = <<GPIO_ERROR>> /\ g_writes = <<>>)
        /\ g_ret = <<GPIO_OK>> => (g_pre /\ ~exported)

\* C13 witness: a gpio_disable() right after one that returned GPIO_OK
\* has returned GPIO_ERROR
C13_Witness ==
    /\ Returned("gpio_disable") /\ g_prev = <<"gpio_disable", <<GPIO_OK>>>>
    /\ ~g_pre /\ g_ret = <<GPIO_ERROR>> /\ g_writes = <<>>

\* C14: gpio_on() and gpio_off() return GPIO_ERROR when the pin is not
\* exported; they return GPIO_OK only on an exported pin, after writing
\* "1" / "0" to value.
C14_OnOffNeedExportedPin ==
    /\ (Returned("gpio_on") \/ Returned("gpio_off")) =>
          /\ ~g_pre => (g_ret = <<GPIO_ERROR>> /\ g_writes = <<>>)
          /\ g_ret = <<GPIO_OK>> => (g_pre /\ exported)
    /\ (Returned("gpio_on") /\ g_ret = <<GPIO_OK>>) =>
          (g_writes = <<<<"value", "1", TRUE>>>> /\ value = 1)
    /\ (Returned("gpio_off") /\ g_ret = <<GPIO_OK>>) =>
          (g_writes = <<<<"value", "0", TRUE>>>> /\ value = 0)

\* C14 witness: gpio_off() returned GPIO_OK after a gpio_on() that did
C14_Witness ==
    /\ Returned("gpio_off") /\ g_ret = <<GPIO_OK>>
    /\ g_prev = <<"gpio_on", <<GPIO_OK>>>> /\ exported /\ value = 0

\* C15: gpio_disable() writes "in" to direction before it writes the pin
\* to unexport, and writes unexport only after the write to direction
\* succeeded; from that write on the pin is not driven, also when the last
\* value written was "1".
C15_DirectionBeforeUnexport ==
    g_fn = "gpio_disable" =>
        /\ Len(g_writes) <= 2
        /\ Len(g_writes) >= 1 =>
              /\ g_writes[1][1] = "direction" /\ g_writes[1][2] = "in"
              /\ g_writes[1][3] => ~PumpOn
        /\ Len(g_writes) = 2 =>
              /\ g_writes[1][3]
              /\ g_writes[2][1] = "unexport" /\ g_writes[2][2] = "17"
        /\ g_ret = <<GPIO_OK>> =>
              /\ WrittenFiles = <<"direction", "unexport">>
              /\ ~PumpOn /\ ~exported

\* C15 witness: gpio_disable() returned GPIO_OK right after a gpio_on()
\* that returned GPIO_OK
C15_Witness ==
    /\ Returned("gpio_disable") /\ g_ret = <<GPIO_OK>>
    /\ g_prev = <<"gpio_on", <<GPIO_OK>>>>
    /\ g_writes = <<<<"direction", "in", TRUE>>, <<"unexport", "17", TRUE>>>>
    /\ ~PumpOn


\* the two activations of mqtt_client_connect: from mqtt_client_init and
\* from mqtt_connection_lost
ConnectFrames == {m_conn, cb_conn}

\* C16 (as stated): mqtt_client_connect makes at most 5 connection
\* attempts, and it returns failure when the 5th has failed.
C16_AtMostFiveAttempts ==
    \A f \in ConnectFrames :
        /\ f.n <= 5
        /\ f.pos = "ret_fail" => f.n = 5

\* C16 (amended): mqtt_client_connect makes one attempt and up to 5
\* retries, 6 attempts in all, with one sleep(5) before each retry; it
\* returns failure only after the 6th attempt has failed, and at startup
\* that failure ends the process with EXIT_FAILURE before the device is
\* opened or the pin is touched.
C16_AtMostSixAttempts ==
    /\ \A f \in ConnectFrames :
        /\ f.n <= MQTT_RETRIES + 1
        /\ f.sleeps = f.count
        /\ f.n > 0 => f.sleeps = f.n - 1
        /\ f.pos = "sleep" => f.n <= MQTT_RETRIES
        /\ f.pos = "ret_fail" => f.n = MQTT_RETRIES + 1
    /\ (m_conn.pos = "ret_fail" /\ pc # "mqtt_connect" /\ MainRuns) =>
        /\ pc \in {"exit", "exited"}
        /\ exit_status = EXIT_FAILURE
        /\ g_fn = "none" /\ ~exported
        /\ last_op = "none"

\* the startup connection failed 6 times and the process has exited
\* with EXIT_FAILURE
C16_Witness ==
    /\ pc = "exited" /\ MainRuns
    /\ m_conn.pos = "ret_fail" /\ m_conn.n = 6 /\ m_conn.sleeps = 5
    /\ exit_status = EXIT_FAILURE

\* the 6th attempt is the first to succeed
C16_SixthSucceeds ==
    m_conn.pos = "ret_ok" /\ m_conn.n = 6

\* mqtt_connection_lost returns in this step
CallbackReturns ==
    cb_conn.pos \in {"ret_ok", "ret_fail"} /\ cb_conn'.pos = "none"

\* C17: the reconnection made by mqtt_connection_lost is the connect
\* sequence of startup, and when it returns, with success or after every
\* attempt has failed, main() is where it was: no exit is taken, the
\* exit status, the pin and the loop's data stay as they are.
C17_ReconnectFailureNotFatal ==
    [][CallbackReturns =>
          /\ pc' = pc /\ hpc' = hpc /\ gstep' = gstep
          /\ exit_status' = exit_status
          /\ pinVars' = pinVars /\ loopVars' = loopVars
          /\ cb_conn.pos = "ret_fail" =>
              (cb_conn.n = MQTT_RETRIES + 1 /\ cb_ret' = "fail")]_vars

\* a reconnection failed on every attempt, and afterwards the loop read
\* the sensor and switched the pump on
C17_Witness ==
    /\ cb_ret = "fail_read" /\ pc = "pump_sleep"
    /\ PumpOn /\ MainRuns /\ exit_status = -1

\* main() completes a mqtt_publish_msg in this step
PublishStep ==
    /\ pc \in PubPcs /\ hpc = "none" /\ hpc' = "none"
    /\ pc' # pc \/ pub_ret' # pub_ret

\* C18: after a mqtt_publish_msg main() goes on to the same next
\* operation whether the publish succeeded or failed (the first read,
\* gpio_on or the poll sleep by the reading, the pump sleep, the
\* poll sleep), with the pin, the exit status and the reading unchanged.
C18_PublishResultIgnored ==
    [][PublishStep =>
          /\ pc' = CASE pc = "pub_init" -> "read"
                     [] pc = "pub_current" ->
                          IF current < target THEN "gpio_on" ELSE "pub_sleep"
                     [] pc = "pub_on" -> "pump_sleep"
                     [] pc = "pub_off" -> "pub_sleep"
                     [] OTHER -> "poll_sleep"
          /\ exit_status' = exit_status
          /\ pinVars' = pinVars
          /\ current' = current]_vars

\* the publish after gpio_on failed, and the pump runs for its pump time
C18_Witness ==
    /\ pub_ret = "fail" /\ pc = "pump_sleep"
    /\ PumpOn /\ MainRuns /\ exit_status = -1

\* C19 (as stated): main() completes no mqtt_publish_msg while
\* mqtt_connection_lost is between its first connect attempt and its
\* return.
C19_PublishExcludesReconnect ==
    [][PublishStep => ~(cb_conn.pos # "none" /\ cb_conn.n >= 1)]_vars

(***************************************************************************)
(* Claims about the fatal exits of main().                                 *)
(***************************************************************************)
\* gpio_enable() of this run has written the pin to export
ExportedByRun ==
    \/ enabled_ok
    \/ /\ g_fn = "gpio_enable"
       /\ \E k \in 1..Len(g_writes) : g_writes[k] = <<"export", "17", TRUE>>

\* C20 (as stated): when main() exits with EXIT_FAILURE after its
\* gpio_enable() exported the pin (failed read, gpio_on or gpio_off error,
\* gpio_enable failed after the export), gpio_disable() was called before
\* the exit, and the pin is unexported unless an operation of
\* gpio_disable failed.
C20_DisableOnEveryFatalExit ==
    (pc = "exited" /\ MainRuns /\ exit_status = EXIT_FAILURE /\ ExportedByRun) =>
        /\ g_fn = "gpio_disable"
        /\ ~disable_fault => ~exported

\* signal_handler(SIGINT | SIGTERM) starts in this step
TerminalDelivered == blocked' # blocked

\* C21 (as stated): the cleanup of a terminal signal never starts while
\* main() is inside a gpio function, in particular not between the
\* export and the direction write of gpio_enable, and not while a
\* gpio_disable is between its direction and its unexport write.
C21_CleanupOutsideGpio ==
    [][TerminalDelivered => ~(GpioFn # "none" /\ gstep >= 1)]_vars

\* the signal arrives when gpio_enable has written export and has not
\* written direction
C21_BetweenExportAndDirection ==
    [][TerminalDelivered =>
          ~(hpc = "none" /\ pc = "gpio_enable" /\ gstep \in {3, 4}
            /\ exported)]_vars

\* signal_handler(SIGUSR1) runs in this step
Usr1Delivered == n_sig' = n_sig + 1 /\ blocked' = blocked

C23_SimulationAsConfigured ==
    (MainRuns /\ pc \in {"read", "pub_init"} /\ prev_iter = <<>>) =>
        ((use_simulation # 0) <=> sim_opt)

\* the same with 8-byte pointers only: the startup write then passes
\* the whole command
C23_HoldsWithEightBytePointers ==
    (MainRuns /\ pc \in {"read", "pub_init"} /\ prev_iter = <<>>
     /\ ptr_size = 8) =>
        ((use_simulation # 0) <=> sim_opt)

\* read() is called on the device in this step
ReadCalled == drv_pc = "idle" /\ last_op' \in {"read", "read_hw"}

\* C24: with simulation on, a read() ends in the step it is called in,
\* with no i2c transaction and no msleep, and delivers sim_data (or
\* fails with -EFAULT when the buffer of the caller cannot be written);
\* use_simulation and sim_data are as before.
C24_SimulatedReadTouchesNothing ==
    [][(ReadCalled /\ use_simulation # 0) =>
          /\ last_op' = "read" /\ drv_pc' = "idle"
          /\ n_xfer' = 0 /\ n_reread' = 0
          /\ use_simulation' = use_simulation /\ sim_data' = sim_data
          /\ \/ sys_ret' = 1 /\ sys_byte' = sim_data
             \/ sys_ret' = 0 - EFAULT /\ sys_byte' = -1]_vars

\* a read in simulation has delivered the simulated byte 255
C24_Witness ==
    /\ last_op = "read" /\ use_simulation = 1 /\ drv_pc = "idle"
    /\ sys_ret = 1 /\ sys_byte = 255 /\ sim_data = 255 /\ n_xfer = 0

\* C25: when signal_handler reaches its exit() on a terminal signal,
\* gpio_disable() has been called and has returned, and the exit status
\* is EXIT_SUCCESS whether it returned GPIO_OK or GPIO_ERROR.
C25_SignalExitIsSuccess ==
    hpc = "h_exit" =>
        /\ exit_status = EXIT_SUCCESS
        /\ Returned("gpio_disable")
        /\ blocked # {}

\* the process has ended on a signal with EXIT_SUCCESS after a
\* gpio_disable() that failed on a pin that was not exported
C25_Witness ==
    /\ pc = "exited" /\ hpc = "h_exit" /\ exit_status = EXIT_SUCCESS
    /\ Returned("gpio_disable") /\ g_ret = <<GPIO_ERROR>>
    /\ ~g_pre /\ g_writes = <<>> /\ ~exported

\* a transaction of a read() on the sensor ends in this step with a raw
\* value in bounds
InBoundsTransaction ==
    drv_pc = "recv" /\ reading' >= 0 /\ reading' <= 4095

\* C26: with simulation off, the transaction that yields a raw value in
\* [0, 4095] is the last one of its read(): no msleep and no transaction
\* follows it, and a read() that delivers a byte delivers the
\* normalisation of the raw value of its last transaction, which is in
\* bounds.
C26_StopsAtFirstInBounds ==
    [][ /\ InBoundsTransaction =>
              /\ drv_pc' = "idle" /\ last_op' = "read"
              /\ n_xfer' = n_xfer /\ n_reread' = n_reread
              /\ sys_ret' = 1 =>
                    sys_byte' = Clamp(reading') - I2C_MIN_RAW_DRY_READING
        /\ (last_op' = "read" /\ n_xfer' >= 1 /\ sys_ret' = 1) =>
              /\ reading' >= 0 /\ reading' <= 4095
              /\ sys_byte' = Clamp(reading') - I2C_MIN_RAW_DRY_READING
      ]_vars

\* the first transaction was above 4095, the second gave 4095, which was
\* accepted and normalised to 255
C26_Witness ==
    /\ last_op = "read" /\ drv_pc = "idle" /\ use_simulation = 0
    /\ n_xfer = 2 /\ ~any_failed /\ reading = 4095
    /\ sys_ret = 1 /\ sys_byte = 255

\* C27 (as stated): the raw value of a transaction in which both
\* transfers succeeded is hi * 256 + lo of the two bytes received, in
\* [0, 65535], and never negative.
C27_RawIsUnsigned16 ==
    [][(drv_pc = "recv" /\ ~any_failed') =>
          (reading' >= 0 /\ reading' <= 65535)]_vars

\* the same where char is unsigned
C27_HoldsWithUnsignedChar ==
    [][(drv_pc = "recv" /\ ~any_failed' /\ ~char_signed) =>
          (reading' >= 0 /\ reading' <= 65535)]_vars

\* C28: the write()s of a gpio function are, in order, those of its
\* control files, each made once; only the last write made can be one
\* that did not transfer all its bytes, and the call then returns
\* GPIO_ERROR; a call that returns GPIO_OK has made all its writes in
\* full, and one that made fewer than all of them returns GPIO_ERROR.
C28_SingleShotWrites ==
    g_fn # "none" =>
        /\ Len(g_writes) <= GpioLastStep(g_fn) \div 2
        /\ \A k \in 1..Len(g_writes) :
              /\ g_writes[k][1] = GpioFile(g_fn, 2 * k)
              /\ g_writes[k][2] = GpioData(g_fn, 2 * k)
              /\ k < Len(g_writes) => g_writes[k][3]
              /\ \A j \in 1..Len(g_writes) :
                    g_writes[j][1] = g_writes[k][1] => j = k
        /\ (\E k \in 1..Len(g_writes) : ~g_writes[k][3]) =>
              g_ret = <<GPIO_ERROR>>
        /\ g_ret = <<GPIO_OK>> =>
              /\ Len(g_writes) = GpioLastStep(g_fn) \div 2
              /\ \A k \in 1..Len(g_writes) : g_writes[k][3]
        /\ (g_ret # <<>> /\ Len(g_writes) < GpioLastStep(g_fn) \div 2) =>
              g_ret = <<GPIO_ERROR>>

\* gpio_enable wrote export in full, its write of direction did not
\* transfer all bytes, and it returned GPIO_ERROR
C28_Witness ==
    /\ Returned("gpio_enable") /\ g_ret = <<GPIO_ERROR>>
    /\ g_writes = <<<<"export", "17", TRUE>>, <<"direction", "out", FALSE>>>>
    /\ exported /\ direction = "in"

\* C29 (as stated): when the process has ended after a read() of main()
\* failed, its exit status is not zero, also when a terminal signal was
\* delivered between the failure and the exit() of main().
C29_FatalExitIsNonZero ==
    (pc = "exited" /\ read_failed) => exit_status # EXIT_SUCCESS

\* the same without a signal: the exit() of main() is the one that ends
\* the process
C29_HoldsWithoutSignal ==
    (pc = "exited" /\ read_failed /\ MainRuns) => exit_status = EXIT_FAILURE

\* the positions of main() from the call of gpio_on() to the return of
\* the gpio_off() or gpio_disable() that follows it
PumpPhase == {"gpio_on", "pub_on", "pump_sleep", "gpio_off", "fatal_disable"}

\* C30 (as stated): in every reachable state in which this run has
\* enabled the pin and the pin drives the pump, main() is between its
\* gpio_on() and the end of the gpio_off() or gpio_disable() that
\* follows, and no cleanup has finished.
C30_PumpOnlyBetweenOnAndOff ==
    (enabled_ok /\ PumpOn) =>
        /\ pc \in PumpPhase
        /\ hpc \in {"none", "h_disable"}

\* C30 (amended): from the return of gpio_enable() until gpio_on(), at
\* every read() and during every poll sleep of main() the pump is off;
\* the pump is on only from gpio_on() to the end of the gpio_off() or
\* gpio_disable() that follows it, or, after that, when the process is
\* exiting and an open, write or close of a gpio_disable() has failed.
C30_PumpOffOutsidePumpPhase ==
    /\ (enabled_ok /\ MainRuns
        /\ pc \in {"malloc", "pub_init", "read", "pub_current", "pub_off",
                   "pub_sleep", "poll_sleep"}) => ~PumpOn
    /\ (enabled_ok /\ PumpOn) =>
          \/ pc \in PumpPhase /\ hpc \in {"none", "h_disable"}
          \/ /\ pc \in PumpPhase \cup {"exit", "exited"}
             /\ pc \in {"exit", "exited"} \/ hpc = "h_exit"
             /\ disable_fault

\* the pump has run in the previous iteration and is off in the poll
\* sleep of this one, which did not need it
C30_Witness ==
    /\ MainRuns /\ pc = "poll_sleep" /\ enabled_ok
    /\ prev_iter # <<>> /\ prev_iter[2] = <<"gpio_on", "sleep", "gpio_off">>
    /\ it_seq = <<>>
    /\ exported /\ direction = "out" /\ value = 0

\* the process has ended with the pump on
C30_PumpLeftOn ==
    pc = "exited" /\ enabled_ok /\ PumpOn /\ disable_fault

\* C31: when this run has turned the pump on, the pin stops driving it
\* (gpio_off, or the direction or unexport write of gpio_disable) unless
\* an open, write or close of a gpio_disable() fails although the pin is
\* exported; and the process has not ended with the pump on unless such
\* a step failed.
C31_PumpEventuallyOff ==
    /\ [](( pc = "exited" /\ enabled_ok /\ ~disable_fault) => ~PumpOn)
    /\ (enabled_ok /\ PumpOn) ~> (~PumpOn \/ disable_fault)

\* a terminal signal arrived during the pump sleep, the handler's
\* gpio_disable() succeeded and the process has ended with the pin
\* unexported
C31_Witness ==
    /\ pc = "exited" /\ hpc = "h_exit" /\ sig_at = <<"pump_sleep", 0>>
    /\ g_fn = "gpio_disable" /\ g_ret = <<GPIO_OK>> /\ g_pre
    /\ ~exported /\ ~disable_fault /\ exit_status = EXIT_SUCCESS

\* C32: a gpio_enable() whose export write succeeded and whose direction
\* write failed has returned GPIO_ERROR and the pin is exported; after a
\* gpio_enable() that returned GPIO_ERROR main() is in exit(EXIT_FAILURE)
\* and has called no gpio function since; a gpio_enable() called with
\* the pin exported (left so by an earlier run) returns GPIO_ERROR
\* without writing direction.
C32_EnableDoesNotRollBack ==
    /\ (Returned("gpio_enable") /\ Len(g_writes) = 2
        /\ g_writes[1][3] /\ ~g_writes[2][3]) =>
          (g_ret = <<GPIO_ERROR>> /\ exported)
    /\ (MainRuns /\ Returned("gpio_enable") /\ g_ret = <<GPIO_ERROR>>) =>
          (pc \in {"exit", "exited"} /\ exit_status = EXIT_FAILURE)
    /\ (Returned("gpio_enable") /\ g_pre) =>
          /\ g_ret = <<GPIO_ERROR>>
          /\ \A k \in 1..Len(g_writes) :
                g_writes[k][1] = "export" /\ ~g_writes[k][3]

\* the direction write of gpio_enable failed after the export, and the
\* process has ended with EXIT_FAILURE and the pin exported
C32_Witness ==
    /\ pc = "exited" /\ MainRuns /\ exit_status = EXIT_FAILURE
    /\ g_fn = "gpio_enable" /\ g_ret = <<GPIO_ERROR>> /\ ~g_pre
    /\ g_writes = <<<<"export", "17", TRUE>>, <<"direction", "out", FALSE>>>>
    /\ exported

\* a run that found the pin exported: its gpio_enable() has failed at
\* the export write
C32_NextEnableFails ==
    /\ pc = "exited" /\ MainRuns /\ exit_status = EXIT_FAILURE
    /\ g_fn = "gpio_enable" /\ g_pre /\ g_ret = <<GPIO_ERROR>>
    /\ g_writes = <<<<"export", "17", FALSE>>>> /\ exported

\* a reconnection made by mqtt_connection_lost has failed on all its
\* attempts
ReconnectFailed == cb_ret \in {"fail", "fail_read"} /\ cb_conn.pos = "none"

\* C33: mqtt_client_connect runs only in mqtt_client_init (main() at
\* its startup connect) and in mqtt_connection_lost; once a reconnection
\* has failed on all its attempts, no step makes a connect attempt or
\* starts a connect sequence, the client stays disconnected, and every
\* mqtt_publish_msg of main() fails and main() goes on.
C33_NoConnectAfterFailedReconnect ==
    [][ /\ m_conn'.n > m_conn.n => pc = "mqtt_connect"
        /\ m_conn'.pos \notin {"none", m_conn.pos} =>
              pc \in {"mqtt_setcb", "mqtt_connect"}
        /\ ReconnectFailed =>
              /\ m_conn'.n <= m_conn.n
              /\ m_conn'.pos \in {"none", m_conn.pos}
              /\ cb_conn' = cb_conn
              /\ ~mq_up /\ ~mq_up'
              /\ cb_ret' \in {"fail", "fail_read"}
              /\ PublishStep => (pub_ret' = "fail" /\ pc' # "fatal_disable"
                                 /\ exit_status' = exit_status)
      ]_vars

\* after a reconnection that failed, main() has read the sensor, its
\* publish has failed, and it is in the poll sleep
C33_Witness ==
    /\ ReconnectFailed /\ cb_ret = "fail_read" /\ pub_ret = "fail"
    /\ pc = "poll_sleep" /\ MainRuns /\ ~mq_up
    /\ m_conn = NoConnect /\ exit_status = -1

\* main() is in mqtt_client_init
MqttStartup == {"mqtt_create", "mqtt_setcb", "mqtt_connect"}

\* C34: while main() is in mqtt_client_init the device has not been
\* opened or written and gpio_enable() has not been called; an exit
\* taken from mqtt_client_init is exit(EXIT_FAILURE) with the pin not
\* exported; the device is opened only after the startup connect has
\* succeeded; and without -m main() is never at a publish, never in
\* mqtt_client_init, and no connect or publish has been made.
C34_TelemetryStartsFirst ==
    /\ [](pc \in MqttStartup =>
            /\ mqtt_opt /\ last_op = "none" /\ ~enabled_ok /\ ~exported
            /\ g_fn # "gpio_enable")
    /\ [](~mqtt_opt =>
            /\ pc \notin MqttStartup \cup PubPcs
            /\ m_conn = NoConnect /\ cb_conn = NoConnect
            /\ ~mq_up /\ pub_ret = "none" /\ cb_ret = "none")
    /\ [][ /\ (pc \in MqttStartup /\ pc' = "exit") =>
                 (exit_status' = EXIT_FAILURE /\ ~exported' /\ ~enabled_ok')
           /\ (mqtt_opt /\ pc # "open_dev" /\ pc' = "open_dev") =>
                 (pc = "mqtt_connect" /\ m_conn.pos = "ret_ok")
         ]_vars

\* the startup connect has failed and the process has ended with
\* EXIT_FAILURE; no gpio function was called, the device was not opened
C34_Witness ==
    /\ mqtt_opt /\ pc = "exited" /\ MainRuns /\ m_conn.pos = "ret_fail"
    /\ exit_status = EXIT_FAILURE
    /\ g_fn = "none" /\ last_op = "none" /\ ~exported /\ ~enabled_ok

\* a run without -m is in its loop
C34_NoBrokerRun ==
    ~mqtt_opt /\ pc = "poll_sleep" /\ MainRuns /\ prev_iter # <<>>

\* C35: a 1-byte write leaves use_simulation as it is, a write of two
\* or more bytes leaves sim_data as it is, and no step of a read()
\* changes either.
C35_WriteFrames ==
    [][ /\ last_op' = "write1" => use_simulation' = use_simulation
        /\ (last_op' = "writeN" /\ Len(last_arg') >= 2) => sim_data' = sim_data
        /\ last_op' \in {"read", "read_hw"} =>
              (use_simulation' = use_simulation /\ sim_data' = sim_data)
      ]_vars

\* in simulation the byte 100 has been written: sim_data holds it, the
\* flag is as it was
C35_Witness ==
    /\ last_op = "write1" /\ last_arg = <<100>> /\ ~last_fault
    /\ use_simulation = 1 /\ sim_data = 100 /\ sys_ret = 1

\* C36 (as stated): a write of zero bytes and a write of 2 to 5 bytes
\* leave use_simulation as it is.
C36_ShortWritesIgnored ==
    [][(last_op' = "writeN" /\ Len(last_arg') \in {0, 2, 3, 4, 5}) =>
          use_simulation' = use_simulation]_vars

\* the same where the bytes of cmd_buf that the write does not fill are
\* zero
C36_HoldsOnZeroedBuffer ==
    [][(last_op' = "writeN" /\ Len(last_arg') \in {0, 2, 3, 4, 5}
        /\ use_simulation' =
              WriteUseSimulation(last_arg', NoStack, last_fault'))
          => use_simulation' = use_simulation]_vars

\* C37: a read() that has ended has either returned 1 and delivered one
\* byte in 0..255, whatever count was asked for, or returned a negative
\* value and delivered nothing; on the sensor the byte is the
\* normalisation of the raw value, and a raw value out of bounds (a
\* failed transfer included) makes the read() fail.
C37_ReadDeliversOneByte ==
    last_op = "read" =>
        /\ \/ sys_ret = 1 /\ sys_byte \in 0..255
           \/ sys_ret < 0 /\ sys_byte = -1
        /\ (n_xfer >= 1 /\ sys_ret = 1) =>
              sys_byte = Clamp(reading) - I2C_MIN_RAW_DRY_READING
        /\ (n_xfer >= 1 /\ (reading < 0 \/ reading > 4095)) => sys_ret < 0
        /\ (n_xfer = 0 /\ sys_ret = 1) => sys_byte = sim_data

\* a read() on the sensor got the raw value 512 at once and delivered
\* the byte 0
C37_Witness ==
    /\ last_op = "read" /\ use_simulation = 0 /\ n_xfer = 1
    /\ reading = 512 /\ sys_ret = 1 /\ sys_byte = 0

\* a read() on the sensor has failed with -EIO
C37_FailedAcquisition ==
    /\ last_op = "read" /\ use_simulation = 0 /\ n_xfer = 5
    /\ sys_ret = 0 - EIO /\ sys_byte = -1

\* the payload begins with "sim-on"
BeginsWithSimOn(p) ==
    Len(p) >= Len(SIM_ON_CMD) /\ SubSeq(p, 1, Len(SIM_ON_CMD)) = SIM_ON_CMD

\* C38 (as stated): use_simulation goes from off to on only in a write
\* whose payload is the "sim-on" command (here: any payload that begins
\* with it), and a 1-byte write made while it is off stores nothing.
C38_EnabledOnlyByCommand ==
    [][ /\ (use_simulation = 0 /\ use_simulation' # 0) =>
              (last_op' = "writeN" /\ BeginsWithSimOn(last_arg'))
        /\ (use_simulation = 0 /\ last_op' = "write1") =>
              (sim_data' = sim_data /\ use_simulation' = 0)
      ]_vars

\* the same where the bytes of cmd_buf that the write does not fill are
\* zero
C38_HoldsOnZeroedBuffer ==
    [][ /\ (use_simulation = 0 /\ use_simulation' # 0
            /\ use_simulation' =
                 WriteUseSimulation(last_arg', NoStack, last_fault')) =>
              (last_op' = "writeN" /\ BeginsWithSimOn(last_arg'))
        /\ (use_simulation = 0 /\ last_op' = "write1") =>
              (sim_data' = sim_data /\ use_simulation' = 0)
      ]_vars

\* when the driver has been initialised and no call was made on the
\* device, simulation is off and sim_data is 0
C38_OffAfterInit ==
    last_op = "none" => (use_simulation = 0 /\ sim_data = 0)

====
